---- MODULE Spec2Model ----
(***************************************************************************)
(* Texas energy dashboard: the date-filtered fetch/aggregate pipeline of   *)
(* the seven fetching views, the shared date filter store and the region   *)
(* mappers, modelled from the TypeScript sources.                          *)
(*                                                                         *)
(* JavaScript values are modelled as follows.                              *)
(*  - a number is a binary floating-point value of MantissaBits           *)
(*    significant bits, written as the rational [num, den] in lowest terms *)
(*    (den > 0) it denotes; NaN is [num |-> 0, den |-> 0].  Every          *)
(*    arithmetic operation rounds its exact result to the nearest value of *)
(*    the format, a tie going to the even significand, as IEEE 754 does.   *)
(*  - the result of a property lookup is a value [t, s]: its type tag and  *)
(*    its string form (what it becomes when used as a property key).       *)
(*  - an object used as a dictionary is an ordered map: a sequence of      *)
(*    <<key, value>> pairs in insertion order.                             *)
(***************************************************************************)
EXTENDS Integers, Sequences, FiniteSets, TLC

(***************************************************************************)
(* Bounds of the model.                                                    *)
(***************************************************************************)
\* longest response array explored by the aggregation specification
MaxLen == 2
\* number of draft edits (fresh draft objects) a behaviour may make
MaxEdits == 1
\* number of re-runs of the fetch effects after mount
MaxTriggers == 1
\* significant bits of the floating-point format (a double has 53)
MantissaBits == 7
\* longest response array explored by the mean specification
MaxFold == 3
\* number of draft edits a behaviour of the commit specification may make
MaxDraftEdits == 2
\* the longest response the sampling of LoadByRegionChart is run on
MaxSampleLen == 116

(***************************************************************************)
(* Numbers.                                                                *)
(***************************************************************************)
RECURSIVE Gcd(_, _)
Gcd(a, b) == IF b = 0 THEN a ELSE Gcd(b, a % b)

Abs(n) == IF n < 0 THEN -n ELSE n

NaN == [num |-> 0, den |-> 0]

IsNaN(x) == x.den = 0

\* n / d as a number, d # 0
Frac(n, d) ==
    LET g == Gcd(Abs(n), Abs(d))
        s == IF d < 0 THEN -1 ELSE 1
    IN  [num |-> s * (n \div g), den |-> s * (d \div g)]

Num(n) == [num |-> n, den |-> 1]

RECURSIVE Pow2(_)
Pow2(k) == IF k = 0 THEN 1 ELSE 2 * Pow2(k - 1)

\* a significand s has MantissaBits bits: SignificandMin <= s < SignificandEnd
SignificandEnd == Pow2(MantissaBits)

SignificandMin == Pow2(MantissaBits - 1)

\* n / d > 0 scaled by a power of two into the range of a significand:
\* n / d is (result.n / result.d) * 2^(result.e)
RECURSIVE Normalize(_, _, _)
Normalize(n, d, e) ==
    IF n >= SignificandEnd * d THEN Normalize(n, 2 * d, e + 1)
    ELSE IF n < SignificandMin * d THEN Normalize(2 * n, d, e - 1)
    ELSE [n |-> n, d |-> d, e |-> e]

\* the value of the format nearest to the rational n / d (d > 0), a tie
\* going to the even significand
RoundToFormat(n, d) ==
    IF n = 0 THEN Num(0)
    ELSE LET s == IF n < 0 THEN -1 ELSE 1
             m == Normalize(Abs(n), d, 0)
             q == m.n \div m.d
             r == m.n % m.d
             sig == IF 2 * r > m.d \/ (2 * r = m.d /\ q % 2 = 1)
                    THEN q + 1 ELSE q
         IN  IF m.e >= 0 THEN Frac(s * sig * Pow2(m.e), 1)
             ELSE Frac(s * sig, Pow2(-m.e))

\* x + y
NumAdd(x, y) ==
    IF IsNaN(x) \/ IsNaN(y) THEN NaN
    ELSE RoundToFormat(x.num * y.den + y.num * x.den, x.den * y.den)

\* x * y
NumMul(x, y) ==
    IF IsNaN(x) \/ IsNaN(y) THEN NaN
    ELSE RoundToFormat(x.num * y.num, x.den * y.den)

\* x / y; 0 / 0 is NaN (a non-zero number over 0 is an infinity, which no
\* operation of the model produces)
NumDiv(x, y) ==
    IF IsNaN(x) \/ IsNaN(y) \/ y.num = 0 THEN NaN
    ELSE IF y.num < 0 THEN RoundToFormat(-(x.num * y.den), x.den * (-y.num))
    ELSE RoundToFormat(x.num * y.den, x.den * y.num)

\* x > 0 as JavaScript evaluates it (false for NaN)
NumPositive(x) == ~IsNaN(x) /\ x.num > 0

\* Math.round: the nearest integer, a tie rounding towards +Infinity
MathRound(x) ==
    IF IsNaN(x) THEN NaN
    ELSE Num((2 * x.num + x.den) \div (2 * x.den))

(***************************************************************************)
(* Property lookup on an object literal.                                   *)
(***************************************************************************)
Str(s) == [t |-> "string", s |-> s]

Undefined == [t |-> "undefined", s |-> "undefined"]

\* Properties every object literal inherits from Object.prototype, with the
\* value a lookup of that name yields.
ObjectPrototype ==
    [constructor |-> [t |-> "function", s |-> "function Object() { [native code] }"],
     toString    |-> [t |-> "function", s |-> "function toString() { [native code] }"],
     valueOf     |-> [t |-> "function", s |-> "function valueOf() { [native code] }"],
     hasOwnProperty |-> [t |-> "function", s |-> "function hasOwnProperty() { [native code] }"],
     __proto__   |-> [t |-> "object", s |-> "[object Object]"]]

\* table[key] where table is an object literal with string values
Lookup(table, key) ==
    IF key \in DOMAIN table THEN Str(table[key])
    ELSE IF key \in DOMAIN ObjectPrototype THEN ObjectPrototype[key]
    ELSE Undefined

\* truthiness of a looked-up value ("" is the only falsy string)
Truthy(v) == v.t # "undefined" /\ ~(v.t = "string" /\ v.s = "")

(***************************************************************************)
(* Ordered maps (insertion-ordered dictionaries).                          *)
(***************************************************************************)
OMHas(m, k) == \E i \in 1..Len(m) : m[i][1] = k

OMGet(m, k) == m[CHOOSE i \in 1..Len(m) : m[i][1] = k][2]

OMSet(m, k, v) ==
    IF OMHas(m, k)
    THEN [i \in 1..Len(m) |-> IF m[i][1] = k THEN <<k, v>> ELSE m[i]]
    ELSE Append(m, <<k, v>>)

(***************************************************************************)
(* Region mappers.                                                         *)
(***************************************************************************)
DisplayRegions == <<"North", "South", "West", "Houston">>

DisplayRegionSet == {"North", "South", "West", "Houston"}

\* DryVsRainyChart.tsx
zoneToRegionMap ==
    [north |-> "North", north_c |-> "North",
     southern |-> "South", south_c |-> "South",
     west |-> "West", far_west |-> "West",
     coast |-> "Houston", east |-> "Houston"]

\* HeatwavesByZoneChart.tsx
zoneToDisplayMap ==
    [north |-> "North", north_c |-> "North",
     southern |-> "South", south_c |-> "South",
     west |-> "West", far_west |-> "West",
     coast |-> "Houston", east |-> "Houston"]

\* ExtremeHeatLoadTable.tsx
xhZoneToRegionMap ==
    [north |-> "North", north_c |-> "North",
     southern |-> "South", south_c |-> "South",
     west |-> "West", far_west |-> "West",
     coast |-> "Houston", east |-> "Houston"]

\* MetricsCard
regionToDisplayMap ==
    [coast |-> "Houston", east |-> "Houston", far_west |-> "West",
     north |-> "North", north_c |-> "North",
     southern |-> "South", south_c |-> "South", west |-> "West"]

\* OutlierDetectionCard
odRegionToDisplayMap ==
    [coast |-> "Houston", east |-> "Houston", far_west |-> "West",
     north |-> "North", north_c |-> "North",
     southern |-> "South", south_c |-> "South", west |-> "West",
     ercot |-> "All"]

\* A thrown value: what `catch (err)` receives.
Thrown(isError, message) == [isError |-> isError, message |-> message]

\* An aggregation outcome: it either threw or produced rows.
Threw(err) == [threw |-> TRUE, err |-> err, rows |-> <<>>]

Rows(rows) == [threw |-> FALSE, err |-> Thrown(FALSE, <<>>), rows |-> rows]

TypeErrorUndefined == Thrown(TRUE, <<"Cannot read properties of undefined">>)

TypeErrorNotFunction == Thrown(TRUE, <<"a.region.localeCompare is not a function">>)

(***************************************************************************)
(* DryVsRainyChart: mean load per region and day type.                     *)
(* A record is [zone, rainy_day, avg_load_mw, num_days].                   *)
(***************************************************************************)
DryRegionDataInit ==
    [r \in DisplayRegionSet |->
        [dry |-> Num(0), rainy |-> Num(0), dryCount |-> 0, rainyCount |-> 0]]

\* apiData.forEach(...) from item i on; regionData[displayRegion] of a key
\* that regionData does not have is undefined, and reading .rainy / .dry of
\* undefined throws a TypeError that leaves forEach.
RECURSIVE DryForEach(_, _, _)
DryForEach(regionData, apiData, i) ==
    IF i > Len(apiData) THEN [threw |-> FALSE, regionData |-> regionData]
    ELSE LET item == apiData[i]
             displayRegion == Lookup(zoneToRegionMap, item.zone)
         IN  IF ~Truthy(displayRegion)
             THEN DryForEach(regionData, apiData, i + 1)
             ELSE IF displayRegion.s \notin DOMAIN regionData
             THEN [threw |-> TRUE, regionData |-> regionData]
             ELSE IF item.rainy_day
             THEN DryForEach(
                    [regionData EXCEPT ![displayRegion.s] =
                        [@ EXCEPT !.rainy = NumAdd(@, Num(item.avg_load_mw)),
                                  !.rainyCount = @ + 1]],
                    apiData, i + 1)
             ELSE DryForEach(
                    [regionData EXCEPT ![displayRegion.s] =
                        [@ EXCEPT !.dry = NumAdd(@, Num(item.avg_load_mw)),
                                  !.dryCount = @ + 1]],
                    apiData, i + 1)

\* a finalization that divides by the number of all records of the region
DryChartPointAllDays(region, values) ==
    LET count == values.dryCount + values.rainyCount
    IN  [region |-> region,
         dry   |-> IF count > 0 THEN NumDiv(values.dry, Num(count)) ELSE Num(0),
         rainy |-> IF count > 0 THEN NumDiv(values.rainy, Num(count)) ELSE Num(0)]

DryChartPoint(region, values) ==
    [region |-> region,
     dry   |-> IF values.dryCount > 0
               THEN NumDiv(values.dry, Num(values.dryCount)) ELSE Num(0),
     rainy |-> IF values.rainyCount > 0
               THEN NumDiv(values.rainy, Num(values.rainyCount)) ELSE Num(0)]

DryVsRainyAggregate(apiData) ==
    LET folded == DryForEach(DryRegionDataInit, apiData, 1)
    IN  IF folded.threw THEN Threw(TypeErrorUndefined)
        ELSE Rows([k \in 1..Len(DisplayRegions) |->
                     DryChartPoint(DisplayRegions[k],
                                   folded.regionData[DisplayRegions[k]])])

(***************************************************************************)
(* HeatwavesByZoneChart: number of streaks per display zone.               *)
(* A record is [zone, streak_days].                                        *)
(***************************************************************************)
ZoneCountInit ==
    <<<<"North", Num(0)>>, <<"South", Num(0)>>,
      <<"West", Num(0)>>, <<"Houston", Num(0)>>>>

\* zoneCount[displayZone]++ : a key zoneCount does not have reads as
\* undefined, whose increment is NaN, stored under that key.
RECURSIVE HeatwavesForEach(_, _, _)
HeatwavesForEach(zoneCount, apiData, i) ==
    IF i > Len(apiData) THEN zoneCount
    ELSE LET heatwave == apiData[i]
             displayZone == Lookup(zoneToDisplayMap, heatwave.zone)
             old == IF OMHas(zoneCount, displayZone.s)
                    THEN OMGet(zoneCount, displayZone.s) ELSE NaN
         IN  IF Truthy(displayZone)
             THEN HeatwavesForEach(
                    OMSet(zoneCount, displayZone.s, NumAdd(old, Num(1))),
                    apiData, i + 1)
             ELSE HeatwavesForEach(zoneCount, apiData, i + 1)

HeatwavesAggregate(apiData) ==
    LET zoneCount == HeatwavesForEach(ZoneCountInit, apiData, 1)
    IN  Rows([k \in 1..Len(zoneCount) |->
                [zone |-> zoneCount[k][1], heatwaves |-> zoneCount[k][2]]])

(***************************************************************************)
(* ExtremeHeatLoadTable: per region, summed load, rounded mean day count   *)
(* and mean threshold temperature, sorted by region name.                  *)
(* A record is [zone, median_peak_load_mw, num_extreme_heat_days,          *)
(* threshold_temp_f].                                                      *)
(***************************************************************************)
RECURSIVE SumSeq(_)
\* xs.reduce((a, b) => a + b, 0)
SumSeq(xs) ==
    IF xs = <<>> THEN Num(0)
    ELSE NumAdd(SumSeq(SubSeq(xs, 1, Len(xs) - 1)), Num(xs[Len(xs)]))

\* regionMap is a Map keyed by the looked-up value itself
RECURSIVE ExtremeForEach(_, _, _)
ExtremeForEach(regionMap, apiData, i) ==
    IF i > Len(apiData) THEN regionMap
    ELSE LET item == apiData[i]
             region == Lookup(xhZoneToRegionMap, item.zone)
             old == IF OMHas(regionMap, region) THEN OMGet(regionMap, region)
                    ELSE [loads |-> <<>>, days |-> <<>>, temps |-> <<>>]
             new == [loads |-> Append(old.loads, item.median_peak_load_mw),
                     days  |-> Append(old.days, item.num_extreme_heat_days),
                     temps |-> Append(old.temps, item.threshold_temp_f)]
         IN  IF Truthy(region)
             THEN ExtremeForEach(OMSet(regionMap, region, new), apiData, i + 1)
             ELSE ExtremeForEach(regionMap, apiData, i + 1)

ExtremeRegionData(region, data) ==
    [region |-> region,
     median_peak_load_mw |-> SumSeq(data.loads),
     num_extreme_heat_days |->
        MathRound(NumDiv(SumSeq(data.days), Num(Len(data.days)))),
     avg_threshold_temp_f |-> NumDiv(SumSeq(data.temps), Num(Len(data.temps)))]

\* localeCompare order of the strings a row's region can be
CollationOrder ==
    <<"[object Object]",
      "function hasOwnProperty() { [native code] }",
      "function Object() { [native code] }",
      "function toString() { [native code] }",
      "function valueOf() { [native code] }",
      "Houston", "North", "South", "West">>

RECURSIVE SortByRegionFrom(_, _)
SortByRegionFrom(rows, k) ==
    IF k > Len(CollationOrder) THEN <<>>
    ELSE SelectSeq(rows, LAMBDA row : row.region.s = CollationOrder[k])
         \o SortByRegionFrom(rows, k + 1)

\* regionData.sort((a, b) => a.region.localeCompare(b.region))
SortByRegion(rows) == SortByRegionFrom(rows, 1)

\* The outcomes of the aggregation.  A region that is not a string has no
\* localeCompare: the comparator throws when such a row is its first
\* argument, which depends on the engine's sort; with fewer than two rows the
\* comparator is never called.
ExtremeHeatAggregate(apiData) ==
    LET regionMap == ExtremeForEach(<<>>, apiData, 1)
        regionData == [k \in 1..Len(regionMap) |->
                         ExtremeRegionData(regionMap[k][1], regionMap[k][2])]
        allStrings == \A k \in 1..Len(regionData) :
                         regionData[k].region.t = "string"
    IN  IF allStrings THEN {Rows(SortByRegion(regionData))}
        ELSE IF Len(regionData) < 2 THEN {Rows(regionData)}
        ELSE {Threw(TypeErrorNotFunction), Rows(SortByRegion(regionData))}

(***************************************************************************)
(* MetricsCard: mean of each metric per region, weighted by n.             *)
(* A record is [region, n, mse, mae, mape_pct, r2].                        *)
(***************************************************************************)
RegionGroupInit ==
    [totalN |-> Num(0), weightedMse |-> Num(0), weightedMae |-> Num(0),
     weightedMape |-> Num(0), weightedR2 |-> Num(0)]

\* regionGroups is an object literal: a key it inherits is already truthy,
\* so no group is created for it and the sums land on the inherited value.
RECURSIVE MetricsForEach(_, _, _)
MetricsForEach(regionGroups, apiData, i) ==
    IF i > Len(apiData) THEN regionGroups
    ELSE LET metric == apiData[i]
             mapped == Lookup(regionToDisplayMap, metric.region)
             displayRegion == IF Truthy(mapped) THEN mapped ELSE Str(metric.region)
             key == displayRegion.s
             group == IF OMHas(regionGroups, key) THEN OMGet(regionGroups, key)
                      ELSE RegionGroupInit
             n == Num(metric.n)
             updated ==
                [totalN |-> NumAdd(group.totalN, n),
                 weightedMse |-> NumAdd(group.weightedMse, NumMul(Num(metric.mse), n)),
                 weightedMae |-> NumAdd(group.weightedMae, NumMul(Num(metric.mae), n)),
                 weightedMape |-> NumAdd(group.weightedMape, NumMul(Num(metric.mape_pct), n)),
                 weightedR2 |-> NumAdd(group.weightedR2, NumMul(Num(metric.r2), n))]
         IN  IF ~OMHas(regionGroups, key) /\ key \in DOMAIN ObjectPrototype
             THEN MetricsForEach(regionGroups, apiData, i + 1)
             ELSE MetricsForEach(OMSet(regionGroups, key, updated), apiData, i + 1)

\* a finalization without the guard on the total weight
MetricsDisplayUnguarded(region, group) ==
    [region |-> region,
     mape |-> NumDiv(group.weightedMape, group.totalN),
     r2   |-> NumDiv(group.weightedR2, group.totalN),
     mse  |-> NumDiv(group.weightedMse, group.totalN),
     mae  |-> NumDiv(group.weightedMae, group.totalN)]

\* a finalization that forgets to divide by the total weight
MetricsDisplaySums(region, group) ==
    [region |-> region, mape |-> group.weightedMape, r2 |-> group.weightedR2,
     mse |-> group.weightedMse, mae |-> group.weightedMae]

MetricsDisplay(region, group) ==
    [region |-> region,
     mape |-> IF NumPositive(group.totalN)
              THEN NumDiv(group.weightedMape, group.totalN) ELSE Num(0),
     r2   |-> IF NumPositive(group.totalN)
              THEN NumDiv(group.weightedR2, group.totalN) ELSE Num(0),
     mse  |-> IF NumPositive(group.totalN)
              THEN NumDiv(group.weightedMse, group.totalN) ELSE Num(0),
     mae  |-> IF NumPositive(group.totalN)
              THEN NumDiv(group.weightedMae, group.totalN) ELSE Num(0)]

MetricsAggregate(apiData) ==
    LET regionGroups == MetricsForEach(<<>>, apiData, 1)
    IN  Rows([k \in 1..Len(regionGroups) |->
                MetricsDisplay(regionGroups[k][1], regionGroups[k][2])])

(***************************************************************************)
(* Date formatting.  An hour_end timestamp is [year, month, day, hour];    *)
(* toLocaleString("en-US", {month: "short", day: "numeric",                *)
(* hour: "2-digit"}) keeps the month, the day and the hour and drops the   *)
(* year.                                                                   *)
(***************************************************************************)
FormatHour(hour_end) ==
    [month |-> hour_end.month, day |-> hour_end.day, hour |-> hour_end.hour]

\* toLocaleDateString("en-US", {month: "short", day: "numeric", year: "numeric"})
FormatDate(hour_end) ==
    [month |-> hour_end.month, day |-> hour_end.day, year |-> hour_end.year]

(***************************************************************************)
(* LoadByRegionChart: one chart point per hourly record, sampled down to   *)
(* MAX_CHART_POINTS.                                                       *)
(***************************************************************************)
MAX_CHART_POINTS == 100

(***************************************************************************)
(* Double precision.  The sampling step and the sampled indices are IEEE   *)
(* 754 doubles; a positive double is [e, bits]: DoubleBits binary digits,  *)
(* the first of them 1 and of weight 2^e, the k-th of weight 2^(e-k+1).    *)
(* Digits are kept in a sequence because a significand does not fit the    *)
(* integers of the model checker.                                          *)
(***************************************************************************)
DoubleBits == 53

\* Digit sequences are processed thirteen digits at a time, so that every
\* intermediate number stays within 31 bits.
RECURSIVE IntBits(_)
\* the binary digits of n >= 0, most significant first (none for 0)
IntBits(n) == IF n = 0 THEN <<>> ELSE Append(IntBits(n \div 2), n % 2)

\* the w binary digits of n < 2^w
FixedBits(n, w) == [k \in 1..w |-> (n \div Pow2(w - k)) % 2]

RECURSIVE BitsToInt(_)
BitsToInt(bits) ==
    IF bits = <<>> THEN 0
    ELSE 2 * BitsToInt(SubSeq(bits, 1, Len(bits) - 1)) + bits[Len(bits)]

\* bits + 1 in the same number of digits (all ones wrap to all zeros)
Increment(bits) ==
    LET zeros == {k \in 1..Len(bits) : bits[k] = 0}
        last == CHOOSE k \in zeros : \A j \in zeros : j <= k
    IN  IF zeros = {} THEN [k \in 1..Len(bits) |-> 0]
        ELSE [k \in 1..Len(bits) |->
                 IF k < last THEN bits[k] ELSE IF k = last THEN 1 ELSE 0]

\* the double nearest to the exact value whose digits are bits (the first
\* one 1, of weight 2^e) followed by something non-zero iff sticky; a tie
\* goes to the even significand
RoundToDouble(e, bits, sticky) ==
    LET padded == IF Len(bits) > DoubleBits THEN bits
                  ELSE bits \o [k \in 1..(DoubleBits + 1 - Len(bits)) |-> 0]
        kept == SubSeq(padded, 1, DoubleBits)
        guard == padded[DoubleBits + 1] = 1
        rest == sticky \/ \E k \in (DoubleBits + 2)..Len(padded) : padded[k] = 1
        up == guard /\ (rest \/ kept[DoubleBits] = 1)
        inc == Increment(kept)
    IN  IF ~up THEN [e |-> e, bits |-> kept]
        ELSE IF inc[1] = 0
        THEN [e |-> e + 1, bits |-> <<1>> \o SubSeq(inc, 1, DoubleBits - 1)]
        ELSE [e |-> e, bits |-> inc]

RECURSIVE ExponentOf(_, _)
\* the e with d * 2^e <= n < d * 2^(e+1), for n >= d > 0
ExponentOf(n, d) == IF n >= 2 * d THEN 1 + ExponentOf(n, 2 * d) ELSE 0

RECURSIVE LongDivide(_, _, _, _)
\* count digits of r / d (r < 2 * d) appended to acc, and what remains
LongDivide(r, d, count, acc) ==
    IF count = 0 THEN [bits |-> acc, rem |-> r]
    ELSE LET w == IF count < 13 THEN count ELSE 13
             scaled == r * Pow2(w - 1)
         IN  LongDivide(2 * (scaled % d), d, count - w,
                        acc \o FixedBits(scaled \div d, w))

\* n / d of two integers n >= d > 0
DoubleDivide(n, d) ==
    LET e == ExponentOf(n, d)
        q == LongDivide(n, d * Pow2(e), DoubleBits + 1, <<>>)
    IN  RoundToDouble(e, q.bits, q.rem # 0)

RECURSIVE TimesBits(_, _, _)
\* the digits of i * bits + carry * 2^Len(bits)
TimesBits(bits, i, carry) ==
    IF bits = <<>> THEN IntBits(carry)
    ELSE LET n == Len(bits)
             w == IF n < 13 THEN n ELSE 13
             t == i * BitsToInt(SubSeq(bits, n - w + 1, n)) + carry
         IN  TimesBits(SubSeq(bits, 1, n - w), i, t \div Pow2(w))
             \o FixedBits(t % Pow2(w), w)

\* i * x of an integer i >= 1 and a double x
DoubleTimes(i, x) ==
    LET product == TimesBits(x.bits, i, 0)
    IN  RoundToDouble(x.e + Len(product) - Len(x.bits), product, FALSE)

\* Math.floor(x) of a double x below 2^31
DoubleFloor(x) == IF x.e < 0 THEN 0 ELSE BitsToInt(SubSeq(x.bits, 1, x.e + 1))

\* Math.floor(i * step)
SampleIndex(i, step) == IF i = 0 THEN 0 ELSE DoubleFloor(DoubleTimes(i, step))

\* sampleData with the loop running to i = maxPoints inclusive
sampleDataInclusive(data, maxPoints) ==
    IF Len(data) <= maxPoints THEN data
    ELSE LET step == DoubleDivide(Len(data), maxPoints)
         IN  [k \in 1..(maxPoints + 1) |->
                 LET index == SampleIndex(k - 1, step)
                 IN  IF index < Len(data) THEN data[index + 1] ELSE Undefined]

\* data[Math.floor(i * step)] for i = 0 .. maxPoints - 1, step = length /
\* maxPoints; an index outside the array reads as undefined
sampleData(data, maxPoints) ==
    IF Len(data) <= maxPoints THEN data
    ELSE LET step == DoubleDivide(Len(data), maxPoints)
         IN  [k \in 1..maxPoints |->
                 LET index == SampleIndex(k - 1, step)
                 IN  IF index < Len(data) THEN data[index + 1] ELSE Undefined]

LoadChartPoint(item) ==
    [hour |-> FormatHour(item.hour_end),
     North   |-> item.north + item.north_c,
     South   |-> item.southern + item.south_c,
     West    |-> item.west + item.far_west,
     Houston |-> item.coast + item.east]

LoadByRegionAggregate(apiData) ==
    Rows(sampleData([k \in 1..Len(apiData) |-> LoadChartPoint(apiData[k])],
                    MAX_CHART_POINTS))

(***************************************************************************)
(* HistoricalForecastCard: one series per region.  A field of a record is  *)
(* [k, v] with k "absent" (undefined), "null" or "num".                    *)
(***************************************************************************)
Absent == [k |-> "absent", v |-> 0]

Present(n) == [k |-> "num", v |-> n]

\* field !== undefined
Defined(f) == f.k # "absent"

\* field || 0
OrZero(f) == IF f.k = "num" THEN f.v ELSE 0

HistoricalRegionDataInit ==
    [All |-> <<>>, North |-> <<>>, South |-> <<>>, West |-> <<>>, Houston |-> <<>>]

\* the series of a region whose observations are the fields a1/e1 (and a2/e2)
ZonePairPoints(apiData, a1, e1, a2, e2) ==
    LET has(item) == Defined(item[a1]) /\ Defined(item[e1])
                     /\ Defined(item[a2]) /\ Defined(item[e2])
        kept == SelectSeq(apiData, has)
    IN  [k \in 1..Len(kept) |->
            [time |-> FormatHour(kept[k].hour_end),
             historical |-> OrZero(kept[k][a1]) + OrZero(kept[k][a2]),
             forecast |-> OrZero(kept[k][e1]) + OrZero(kept[k][e2])]]

ErcotPoints(apiData) ==
    LET has(item) == Defined(item.ercot_actual) /\ Defined(item.ercot_expected)
        kept == SelectSeq(apiData, has)
    IN  [k \in 1..Len(kept) |->
            [time |-> FormatHour(kept[k].hour_end),
             historical |-> OrZero(kept[k].ercot_actual),
             forecast |-> OrZero(kept[k].ercot_expected)]]

HistoricalAggregate(apiData) ==
    Rows([All |-> ErcotPoints(apiData),
          North |-> ZonePairPoints(apiData, "north_actual", "north_expected",
                                   "north_c_actual", "north_c_expected"),
          South |-> ZonePairPoints(apiData, "southern_actual", "southern_expected",
                                   "south_c_actual", "south_c_expected"),
          West |-> ZonePairPoints(apiData, "west_actual", "west_expected",
                                  "far_west_actual", "far_west_expected"),
          Houston |-> ZonePairPoints(apiData, "coast_actual", "coast_expected",
                                     "east_actual", "east_expected")])

\* setDateLabels: the first and last record's dates, unchanged when empty
HistoricalDateLabels(old, apiData) ==
    IF Len(apiData) > 0
    THEN [start |-> FormatDate(apiData[1].hour_end),
          end |-> FormatDate(apiData[Len(apiData)].hour_end)]
    ELSE old

(***************************************************************************)
(* OutlierDetectionCard: residual per outlier, thresholds from the first   *)
(* record's std_dev.                                                       *)
(***************************************************************************)
STD_DEV_THRESHOLD == 3

OutlierPoint(outlier) ==
    LET mapped == Lookup(odRegionToDisplayMap, outlier.region)
    IN  [time |-> FormatHour(outlier.hour_end),
         residual |-> outlier.load_mw - outlier.mean,
         region |-> IF Truthy(mapped) THEN mapped ELSE Str(outlier.region)]

OutlierAggregate(apiData) ==
    Rows([k \in 1..Len(apiData) |-> OutlierPoint(apiData[k])])

\* thresholds taken from the last record of the response
OutlierThresholdsLast(old, apiData) ==
    IF Len(apiData) > 0
    THEN [upper |-> STD_DEV_THRESHOLD * apiData[Len(apiData)].std_dev,
          lower |-> (-STD_DEV_THRESHOLD) * apiData[Len(apiData)].std_dev]
    ELSE old

OutlierThresholds(old, apiData) ==
    IF Len(apiData) > 0
    THEN [upper |-> STD_DEV_THRESHOLD * apiData[1].std_dev,
          lower |-> (-STD_DEV_THRESHOLD) * apiData[1].std_dev]
    ELSE old

(***************************************************************************)
(* The views and the pages that mount them.                                *)
(***************************************************************************)
AnalysisViews ==
    {"LoadByRegionChart", "HeatwavesByZoneChart", "ExtremeHeatLoadTable",
     "DryVsRainyChart"}

ForecastingViews ==
    {"HistoricalForecastCard", "MetricsCard", "OutlierDetectionCard"}

Views == AnalysisViews \cup ForecastingViews

\* the views whose effect depends on [dateRange, selectedModel]
ModelViews == {"HistoricalForecastCard", "MetricsCard"}

\* the views with a region / zone select, and the options it offers
RegionSelectViews == Views \ {"ExtremeHeatLoadTable"}

RegionOptions(v) ==
    IF v \in AnalysisViews
    THEN {"all", "North", "South", "West", "Houston"}
    ELSE {"All", "North", "South", "West", "Houston"}

RegionDefault(v) == IF v \in AnalysisViews THEN "all" ELSE "All"

\* the options a user picks in the behaviours explored
RegionInputs(v) == {r \in RegionOptions(v) : r \in {RegionDefault(v), "North"}}

ModelOptions == {"Statistical Model", "Prophet", "XGBoost"}

\* the models a user picks in the behaviours explored
ModelInputs == {m \in ModelOptions : m \in {"Statistical Model", "XGBoost"}}

(***************************************************************************)
(* State.                                                                  *)
(***************************************************************************)
VARIABLES
    dateRange,       \* DateFilterProvider: the committed range
    tempDateRange,   \* DateFilterProvider: the draft range
    nextOid,         \* identity of the most recently created range object
    selectedModel,   \* ForecastingPage: the selected forecast model
    selected,        \* per view: the selected region / zone
    mounted,         \* the views whose state is tracked
    data,            \* per view: useState data
    loading,         \* per view: useState loading
    error,           \* per view: useState error (<<>> is null)
    thresholds,      \* OutlierDetectionCard: useState thresholds
    dateLabels,      \* HistoricalForecastCard: useState dateLabels
    inflight,        \* the requests awaiting their response
    issued,          \* per view: number of requests issued so far
    log,             \* per view: history of resolutions, oldest first
    aggView,         \* aggregation run: the view whose pipeline runs
    aggInput,        \* aggregation run: the response array
    aggOutput,       \* aggregation run: the outcome
    aggPc            \* aggregation run: "off", "ready" or "done"

storeVars == <<dateRange, tempDateRange, nextOid>>

viewVars == <<data, loading, error, thresholds, dateLabels>>

aggVars == <<aggView, aggInput, aggOutput, aggPc>>

vars == <<dateRange, tempDateRange, nextOid, selectedModel, selected, mounted,
          data, loading, error, thresholds, dateLabels, inflight, issued, log,
          aggView, aggInput, aggOutput, aggPc>>

(***************************************************************************)
(* DateFilterProvider.                                                     *)
(***************************************************************************)
\* A range object: its identity and its two date strings.
Range(oid, startDate, endDate) ==
    [oid |-> oid, startDate |-> startDate, endDate |-> endDate]

initialRange == Range(0, "2010-06-01", "2011-01-01")

\* the values a date input can deliver ("" when it is cleared)
StartInputs == {"2010-06-01", ""}

EndInputs == {"2011-01-01", "2010-06-02"}

NoError == <<>>

\* useState initial values of a view
DataInit(v) ==
    IF v = "HistoricalForecastCard" THEN HistoricalRegionDataInit ELSE <<>>

ThresholdsInit == [upper |-> 0, lower |-> 0]

NoDate == [month |-> 0, day |-> 0, year |-> 0]

DateLabelsInit == [start |-> NoDate, end |-> NoDate]

(***************************************************************************)
(* Fetch Orchestrator: the part of fetchData up to `await fetch(...)`.     *)
(***************************************************************************)
\* the request a run of v's effect issues
Request(v, seq, range, model) ==
    [view |-> v, seq |-> seq, oid |-> range.oid,
     startDate |-> range.startDate, endDate |-> range.endDate,
     model |-> IF v \in ModelViews THEN model ELSE "none"]

InflightOf(v) == {r \in inflight : r.view = v}

\* effects that abort the requests their views still have in flight
RunEffectsAbortPrevious(vs, range, model) ==
    /\ loading' = [v \in Views |-> IF v \in vs THEN TRUE ELSE loading[v]]
    /\ error' = [v \in Views |-> IF v \in vs THEN NoError ELSE error[v]]
    /\ issued' = [v \in Views |-> IF v \in vs THEN issued[v] + 1 ELSE issued[v]]
    /\ inflight' = {r \in inflight : r.view \notin vs} \cup
                      {Request(v, issued[v] + 1, range, model) : v \in vs}
    /\ UNCHANGED <<data, thresholds, dateLabels, log>>

\* the effects of the views in vs run with the given range and model:
\* setLoading(true); setError(null); fetch(...)
RunEffects(vs, range, model) ==
    /\ loading' = [v \in Views |-> IF v \in vs THEN TRUE ELSE loading[v]]
    /\ error' = [v \in Views |-> IF v \in vs THEN NoError ELSE error[v]]
    /\ issued' = [v \in Views |-> IF v \in vs THEN issued[v] + 1 ELSE issued[v]]
    /\ inflight' = inflight \cup
                      {Request(v, issued[v] + 1, range, model) : v \in vs}
    /\ UNCHANGED <<data, thresholds, dateLabels, log>>

\* the bound on the number of requests of a view
MaxRequests == 1 + MaxTriggers

CanTrigger(vs) == \A v \in vs : issued[v] < MaxRequests

(***************************************************************************)
(* User actions.                                                           *)
(***************************************************************************)
\* a From input that commits as it is typed into
SetTempStartDateLive(d) ==
    /\ aggPc = "off"
    /\ nextOid < MaxEdits
    /\ d # tempDateRange.startDate
    /\ nextOid' = nextOid + 1
    /\ tempDateRange' = Range(nextOid + 1, d, tempDateRange.endDate)
    /\ dateRange' = tempDateRange'
    /\ UNCHANGED <<selectedModel, selected, mounted, viewVars, inflight,
                   issued, log, aggVars>>

\* setTempDateRange({ ...tempDateRange, startDate: d }): the draft becomes a
\* fresh object, the edits-th at most
EditStartDate(d, edits) ==
    /\ aggPc = "off"
    /\ nextOid < edits
    /\ d # tempDateRange.startDate
    /\ nextOid' = nextOid + 1
    /\ tempDateRange' = Range(nextOid + 1, d, tempDateRange.endDate)
    /\ UNCHANGED <<dateRange, selectedModel, selected, mounted, viewVars,
                   inflight, issued, log, aggVars>>

\* setTempDateRange({ ...tempDateRange, endDate: d })
EditEndDate(d, edits) ==
    /\ aggPc = "off"
    /\ nextOid < edits
    /\ d # tempDateRange.endDate
    /\ nextOid' = nextOid + 1
    /\ tempDateRange' = Range(nextOid + 1, tempDateRange.startDate, d)
    /\ UNCHANGED <<dateRange, selectedModel, selected, mounted, viewVars,
                   inflight, issued, log, aggVars>>

\* DateRangeFilter: onChange of the From input
SetTempStartDate(d) == EditStartDate(d, MaxEdits)

\* DateRangeFilter: onChange of the To input
SetTempEndDate(d) == EditEndDate(d, MaxEdits)

\* an Update button that compares the dates of the draft with the committed
\* ones and commits only when they differ
applyDateRangeByValue ==
    /\ aggPc = "off"
    /\ IF /\ tempDateRange.startDate = dateRange.startDate
          /\ tempDateRange.endDate = dateRange.endDate
       THEN UNCHANGED <<dateRange, viewVars, inflight, issued, log>>
       ELSE /\ CanTrigger(mounted)
            /\ dateRange' = tempDateRange
            /\ RunEffects(mounted, tempDateRange, selectedModel)
    /\ UNCHANGED <<tempDateRange, nextOid, selectedModel, selected, mounted,
                   aggVars>>

\* DateRangeFilter: the Update button.  setDateRange(tempDateRange) with the
\* object that is already the committed one changes nothing; otherwise every
\* mounted view's effect re-runs with the new committed range.
applyDateRange ==
    /\ aggPc = "off"
    /\ IF tempDateRange.oid = dateRange.oid
       THEN UNCHANGED <<dateRange, viewVars, inflight, issued, log>>
       ELSE /\ CanTrigger(mounted)
            /\ dateRange' = tempDateRange
            /\ RunEffects(mounted, tempDateRange, selectedModel)
    /\ UNCHANGED <<tempDateRange, nextOid, selectedModel, selected, mounted,
                   aggVars>>

\* ForecastConfigCard: onModelChange -> setSelectedModel; the effects that
\* depend on selectedModel re-run.
SelectModel(m) ==
    /\ aggPc = "off"
    /\ mounted \cap ForecastingViews # {}
    /\ m # selectedModel
    /\ CanTrigger(mounted \cap ModelViews)
    /\ selectedModel' = m
    /\ RunEffects(mounted \cap ModelViews, dateRange, m)
    /\ UNCHANGED <<storeVars, selected, mounted, aggVars>>

\* a region / zone select whose view lists the selection among the
\* dependencies of its effect
SelectRegionRefetch(v, r) ==
    /\ aggPc = "off"
    /\ v \in mounted \cap RegionSelectViews
    /\ r # selected[v]
    /\ CanTrigger({v})
    /\ selected' = [selected EXCEPT ![v] = r]
    /\ RunEffects({v}, dateRange, selectedModel)
    /\ UNCHANGED <<storeVars, selectedModel, mounted, aggVars>>

\* a region / zone select: only the selection changes
SelectRegion(v, r) ==
    /\ aggPc = "off"
    /\ v \in mounted \cap RegionSelectViews
    /\ r # selected[v]
    /\ selected' = [selected EXCEPT ![v] = r]
    /\ UNCHANGED <<storeVars, selectedModel, mounted, viewVars, inflight,
                   issued, log, aggVars>>

(***************************************************************************)
(* Responses.                                                              *)
(***************************************************************************)
\* non-success responses: status and statusText
ErrorResponses == {[status |-> "500", statusText |-> "Internal Server Error"]}

Hour(y, m, d, h) == [year |-> y, month |-> m, day |-> d, hour |-> h]

HourlyRecord(h, n) ==
    [hour_end |-> h, north |-> n, southern |-> n, south_c |-> n, west |-> n,
     north_c |-> n, coast |-> n, east |-> n, far_west |-> n]

ComparisonRecord(h, z, e) ==
    [hour_end |-> h,
     coast_actual |-> z, coast_expected |-> z,
     east_actual |-> z, east_expected |-> z,
     far_west_actual |-> z, far_west_expected |-> z,
     north_actual |-> z, north_expected |-> z,
     north_c_actual |-> z, north_c_expected |-> z,
     southern_actual |-> z, southern_expected |-> z,
     south_c_actual |-> z, south_c_expected |-> z,
     west_actual |-> z, west_expected |-> z,
     ercot_actual |-> e, ercot_expected |-> e]

\* the record arrays a successful response of a view's endpoint may carry
Responses(v) ==
    CASE v = "LoadByRegionChart" ->
            {<<>>, <<HourlyRecord(Hour(2010, 6, 1, 1), 10)>>}
      [] v = "HeatwavesByZoneChart" ->
            {<<>>, <<[zone |-> "north", streak_days |-> 3]>>,
             <<[zone |-> "constructor", streak_days |-> 3]>>}
      [] v = "ExtremeHeatLoadTable" ->
            {<<>>,
             <<[zone |-> "north", median_peak_load_mw |-> 100,
                num_extreme_heat_days |-> 1, threshold_temp_f |-> 100]>>,
             <<[zone |-> "coast", median_peak_load_mw |-> 100,
                num_extreme_heat_days |-> 1, threshold_temp_f |-> 100],
               [zone |-> "constructor", median_peak_load_mw |-> 100,
                num_extreme_heat_days |-> 1, threshold_temp_f |-> 100]>>}
      [] v = "DryVsRainyChart" ->
            {<<>>,
             <<[zone |-> "north", rainy_day |-> FALSE, avg_load_mw |-> 100,
                num_days |-> 1]>>,
             <<[zone |-> "constructor", rainy_day |-> FALSE,
                avg_load_mw |-> 100, num_days |-> 1]>>}
      [] v = "HistoricalForecastCard" ->
            {<<>>,
             <<ComparisonRecord(Hour(2010, 6, 1, 1), Absent, Present(10))>>}
      [] v = "MetricsCard" ->
            {<<>>,
             <<[region |-> "north", n |-> 1, mse |-> 4, mae |-> 2,
                mape_pct |-> 10, r2 |-> 1]>>}
      [] v = "OutlierDetectionCard" ->
            {<<>>,
             <<[hour_end |-> Hour(2010, 6, 1, 1), region |-> "north",
                load_mw |-> 50, mean |-> 10, std_dev |-> 5]>>}

\* the outcomes of a view's pipeline on a parsed response
Aggregate(v, apiData) ==
    CASE v = "LoadByRegionChart" -> {LoadByRegionAggregate(apiData)}
      [] v = "HeatwavesByZoneChart" -> {HeatwavesAggregate(apiData)}
      [] v = "ExtremeHeatLoadTable" -> ExtremeHeatAggregate(apiData)
      [] v = "DryVsRainyChart" -> {DryVsRainyAggregate(apiData)}
      [] v = "HistoricalForecastCard" -> {HistoricalAggregate(apiData)}
      [] v = "MetricsCard" -> {MetricsAggregate(apiData)}
      [] v = "OutlierDetectionCard" -> {OutlierAggregate(apiData)}

(***************************************************************************)
(* Fetch Orchestrator: the continuation of fetchData after the await.      *)
(***************************************************************************)
\* throw new Error(...) on !response.ok
HttpErrorMessage(v, response) ==
    IF v = "ExtremeHeatLoadTable"
    THEN <<"Failed to fetch data: ", response.statusText>>
    ELSE <<"API error: ", response.status>>

\* catch (err): err instanceof Error ? err.message : <fallback>
CatchMessage(v, err) ==
    IF err.isError THEN err.message
    ELSE IF v = "ExtremeHeatLoadTable" THEN <<"An error occurred">>
    ELSE <<"Failed to load data">>

\* a loading flag that stays up while another request of v is in flight
FinallyLoadingWhilePending(v) == Cardinality(InflightOf(v)) > 1

\* finally { setLoading(false) }
FinallyLoading(v) == FALSE

\* a setData that drops the response of a superseded request
SetDataIfLatest(req, rows) ==
    IF req.seq = issued[req.view] THEN rows ELSE data[req.view]

\* setData(rows) of the response of request req
SetData(req, rows) == rows

\* a failed run that resets data to its initial value
KeepDataReset(v) == DataInit(v)

\* what a failed run leaves in data
KeepData(v) == data[v]

\* the two most recent entries of a history
Recent(h) == IF Len(h) <= 2 THEN h ELSE <<h[Len(h) - 1], h[Len(h)]>>

\* the history entry of a resolution
LogEntry(req, stored, rows) ==
    [seq |-> req.seq, oid |-> req.oid, stored |-> stored, rows |-> rows,
     pending |-> {r.seq : r \in InflightOf(req.view) \ {req}}]

\* a catch that issues the failed request once more
FailAndRetry(req, err) ==
    LET v == req.view
    IN  /\ error' = [error EXCEPT ![v] = CatchMessage(v, err)]
        /\ loading' = [loading EXCEPT ![v] = FinallyLoading(v)]
        /\ data' = [data EXCEPT ![v] = KeepData(v)]
        /\ issued' = [issued EXCEPT ![v] = @ + 1]
        /\ inflight' = (inflight \ {req}) \cup {[req EXCEPT !.seq = issued[v] + 1]}
        /\ log' = [log EXCEPT ![v] =
                     Recent(Append(@, LogEntry(req, FALSE, DataInit(v))))]
        /\ UNCHANGED <<storeVars, selectedModel, selected, mounted, thresholds,
                       aggVars>>

\* a catch that reports the error to every view (one shared error state)
FailEveryView(req, err) ==
    LET v == req.view
    IN  /\ error' = [w \in Views |-> CatchMessage(v, err)]
        /\ loading' = [loading EXCEPT ![v] = FinallyLoading(v)]
        /\ data' = [data EXCEPT ![v] = KeepData(v)]
        /\ inflight' = inflight \ {req}
        /\ log' = [log EXCEPT ![v] =
                     Recent(Append(@, LogEntry(req, FALSE, DataInit(v))))]
        /\ UNCHANGED <<storeVars, selectedModel, selected, mounted, thresholds,
                       issued, aggVars>>

\* catch + finally of the run that issued req
Fail(req, err) ==
    LET v == req.view
    IN  /\ error' = [error EXCEPT ![v] = CatchMessage(v, err)]
        /\ loading' = [loading EXCEPT ![v] = FinallyLoading(v)]
        /\ data' = [data EXCEPT ![v] = KeepData(v)]
        /\ inflight' = inflight \ {req}
        /\ log' = [log EXCEPT ![v] =
                     Recent(Append(@, LogEntry(req, FALSE, DataInit(v))))]
        /\ UNCHANGED <<storeVars, selectedModel, selected, mounted, thresholds,
                       issued, aggVars>>

\* fetch(...) rejects (network unreachable, DNS, ...)
ResolveReject(req) ==
    /\ req \in inflight
    /\ Fail(req, Thrown(TRUE, <<"Failed to fetch">>))
    /\ UNCHANGED dateLabels

\* the response has a non-success status
ResolveHttpError(req, response) ==
    /\ req \in inflight
    /\ Fail(req, Thrown(TRUE, HttpErrorMessage(req.view, response)))
    /\ UNCHANGED dateLabels

\* response.json() rejects: the body is not JSON
ResolveBadJson(req) ==
    /\ req \in inflight
    /\ Fail(req, Thrown(TRUE, <<"Unexpected token in JSON">>))
    /\ UNCHANGED dateLabels

\* the response is a success carrying apiData
ResolveSuccess(req, apiData) ==
    LET v == req.view
    IN  /\ req \in inflight
        /\ \E out \in Aggregate(v, apiData) :
              IF out.threw
              THEN /\ Fail(req, out.err)
                   /\ dateLabels' = IF v = "HistoricalForecastCard"
                                    THEN HistoricalDateLabels(dateLabels, apiData)
                                    ELSE dateLabels
              ELSE /\ data' = [data EXCEPT ![v] = SetData(req, out.rows)]
                   /\ loading' = [loading EXCEPT ![v] = FinallyLoading(v)]
                   /\ thresholds' = IF v = "OutlierDetectionCard"
                                    THEN OutlierThresholds(thresholds, apiData)
                                    ELSE thresholds
                   /\ dateLabels' = IF v = "HistoricalForecastCard"
                                    THEN HistoricalDateLabels(dateLabels, apiData)
                                    ELSE dateLabels
                   /\ inflight' = inflight \ {req}
                   /\ log' = [log EXCEPT ![v] =
                                Recent(Append(@, LogEntry(req, TRUE, out.rows)))]
                   /\ UNCHANGED <<storeVars, selectedModel, selected, mounted,
                                  error, issued, aggVars>>

(***************************************************************************)
(* The dashboard: one mounted view, its store and its requests.            *)
(***************************************************************************)
\* the sets of views a behaviour tracks
MountChoices == {{v} : v \in Views}

Init ==
    /\ dateRange = initialRange
    /\ tempDateRange = initialRange
    /\ nextOid = 0
    /\ selectedModel = "Statistical Model"
    /\ selected = [v \in Views |-> RegionDefault(v)]
    /\ mounted \in MountChoices
    /\ data = [v \in Views |-> DataInit(v)]
    /\ loading = [v \in Views |-> TRUE]
    /\ error = [v \in Views |-> NoError]
    /\ thresholds = ThresholdsInit
    /\ dateLabels = DateLabelsInit
    /\ issued = [v \in Views |-> IF v \in mounted THEN 1 ELSE 0]
    /\ inflight = {Request(v, 1, initialRange, "Statistical Model") : v \in mounted}
    /\ log = [v \in Views |-> <<>>]
    /\ aggView = "none"
    /\ aggInput = <<>>
    /\ aggOutput = Rows(<<>>)
    /\ aggPc = "off"

Next ==
    \/ \E d \in StartInputs : SetTempStartDate(d)
    \/ \E d \in EndInputs : SetTempEndDate(d)
    \/ applyDateRange
    \/ \E m \in ModelInputs : SelectModel(m)
    \/ \E v \in Views : \E r \in RegionInputs(v) : SelectRegion(v, r)
    \/ \E req \in inflight : ResolveReject(req)
    \/ \E req \in inflight : \E response \in ErrorResponses :
            ResolveHttpError(req, response)
    \/ \E req \in inflight : ResolveBadJson(req)
    \/ \E req \in inflight : \E apiData \in Responses(req.view) :
            ResolveSuccess(req, apiData)

Spec == Init /\ [][Next]_vars

(***************************************************************************)
(* The aggregation pipelines on their own: a response array of at most     *)
(* MaxLen records is handed to one view's pipeline.                        *)
(***************************************************************************)
SeqsUpTo(S, n) == UNION {[1..k -> S] : k \in 0..n}

\* zone / region identifiers of the records: mapped ones, unmapped ones and
\* one that Object.prototype defines
InputZones ==
    {"north", "north_c", "southern", "coast", "ercot", "atlantis", "constructor"}

DryRecords ==
    [zone : InputZones, rainy_day : BOOLEAN, avg_load_mw : {100, 200},
     num_days : {1, 5}]

HeatwaveRecords == [zone : InputZones, streak_days : {3, 4}]

ExtremeRecords ==
    [zone : InputZones, median_peak_load_mw : {100, 200},
     num_extreme_heat_days : {1, 2}, threshold_temp_f : {100, 101}]

MetricsRecords ==
    {[region |-> z, n |-> n, mse |-> p[1], mae |-> p[2], mape_pct |-> p[3],
      r2 |-> p[4]] :
        z \in InputZones, n \in {0, 1, 2}, p \in {<<4, 2, 10, 1>>, <<16, 3, 20, 0>>}}

AggViews ==
    {"DryVsRainyChart", "HeatwavesByZoneChart", "ExtremeHeatLoadTable",
     "MetricsCard"}

AggRecords(v) ==
    CASE v = "DryVsRainyChart" -> DryRecords
      [] v = "HeatwavesByZoneChart" -> HeatwaveRecords
      [] v = "ExtremeHeatLoadTable" -> ExtremeRecords
      [] v = "MetricsCard" -> MetricsRecords

InitAgg ==
    /\ dateRange = initialRange
    /\ tempDateRange = initialRange
    /\ nextOid = 0
    /\ selectedModel = "Statistical Model"
    /\ selected = [v \in Views |-> RegionDefault(v)]
    /\ mounted = {}
    /\ data = [v \in Views |-> DataInit(v)]
    /\ loading = [v \in Views |-> TRUE]
    /\ error = [v \in Views |-> NoError]
    /\ thresholds = ThresholdsInit
    /\ dateLabels = DateLabelsInit
    /\ issued = [v \in Views |-> 0]
    /\ inflight = {}
    /\ log = [v \in Views |-> <<>>]
    /\ aggView \in AggViews
    /\ aggInput \in SeqsUpTo(AggRecords(aggView), MaxLen)
    /\ aggOutput = Rows(<<>>)
    /\ aggPc = "ready"

\* the pipeline of view v runs on aggInput
RunAggregate(v) ==
    /\ aggPc = "ready"
    /\ aggView = v
    /\ aggOutput' \in Aggregate(v, aggInput)
    /\ aggPc' = "done"
    /\ UNCHANGED <<storeVars, selectedModel, selected, mounted, viewVars,
                   inflight, issued, log, aggView, aggInput>>

AggregateDryVsRainy == RunAggregate("DryVsRainyChart")

AggregateHeatwaves == RunAggregate("HeatwavesByZoneChart")

AggregateExtremeHeat == RunAggregate("ExtremeHeatLoadTable")

AggregateMetrics == RunAggregate("MetricsCard")

NextAgg ==
    \/ AggregateDryVsRainy
    \/ AggregateHeatwaves
    \/ AggregateExtremeHeat
    \/ AggregateMetrics

SpecAgg == InitAgg /\ [][NextAgg]_vars

(***************************************************************************)
(* Rendering: which of its four states a view shows.                       *)
(***************************************************************************)
\* the rows a view would draw, after its region post-filter
Displayed(v) ==
    CASE v = "HistoricalForecastCard" -> data[v][selected[v]]
      [] v = "MetricsCard" ->
            IF selected[v] = "All" THEN data[v]
            ELSE SelectSeq(data[v], LAMBDA m : m.region = selected[v])
      [] v = "OutlierDetectionCard" ->
            IF selected[v] = "All" THEN data[v]
            ELSE SelectSeq(data[v], LAMBDA r : r.region = Str(selected[v]))
      [] v = "HeatwavesByZoneChart" ->
            IF selected[v] = "all" THEN data[v]
            ELSE SelectSeq(data[v], LAMBDA d : d.zone = selected[v])
      [] v = "DryVsRainyChart" ->
            IF selected[v] = "all" THEN data[v]
            ELSE SelectSeq(data[v], LAMBDA d : d.region = selected[v])
      [] OTHER -> data[v]

\* the length the view tests before it draws
EmptyTest(v) ==
    IF v \in {"HistoricalForecastCard", "MetricsCard"}
    THEN Len(Displayed(v)) = 0
    ELSE Len(data[v]) = 0

Render(v) ==
    IF loading[v] THEN "loading"
    ELSE IF error[v] # NoError THEN "error"
    ELSE IF EmptyTest(v) THEN "empty"
    ELSE "content"

(***************************************************************************)
(* Properties of the aggregation pipelines (specification SpecAgg).        *)
(***************************************************************************)
\* the zone table of a view that skips unmapped zones
ZoneTable(v) ==
    CASE v = "DryVsRainyChart" -> zoneToRegionMap
      [] v = "HeatwavesByZoneChart" -> zoneToDisplayMap
      [] v = "ExtremeHeatLoadTable" -> xhZoneToRegionMap

\* the records of a response whose zone is a key of table
MappedOnly(table, apiData) ==
    SelectSeq(apiData, LAMBDA item : item.zone \in DOMAIN table)

\* the mapped records of a response that belong to display region r
RecordsOf(table, apiData, r) ==
    SelectSeq(apiData, LAMBDA item :
        item.zone \in DOMAIN table /\ table[item.zone] = r)

AggDone(vs) == aggPc = "done" /\ aggView \in vs

\* C1: in DryVsRainyChart, HeatwavesByZoneChart and ExtremeHeatLoadTable a
\* record whose zone is not a key of the zone table is skipped: the outcome
\* on a response is the outcome on its mapped records alone, and nothing is
\* thrown.
C1_UnmappedZonesSkipped ==
    AggDone({"DryVsRainyChart", "HeatwavesByZoneChart", "ExtremeHeatLoadTable"})
    => /\ ~aggOutput.threw
       /\ aggOutput \in
            Aggregate(aggView, MappedOnly(ZoneTable(aggView), aggInput))

\* the metrics records whose region is a key of regionToDisplayMap
MappedMetrics(apiData) ==
    SelectSeq(apiData, LAMBDA metric : metric.region \in DOMAIN regionToDisplayMap)

\* C2: in MetricsCard a record whose region is not in the mapping table is
\* excluded: it contributes to no row and gets no row, so every row's region
\* is one of North, South, West, Houston.
C2_UnknownMetricsRegionExcluded ==
    AggDone({"MetricsCard"})
    => /\ \A k \in 1..Len(aggOutput.rows) :
            aggOutput.rows[k].region \in DisplayRegionSet
       /\ aggOutput = MetricsAggregate(MappedMetrics(aggInput))

\* C3: for every successful response DryVsRainyChart and
\* HeatwavesByZoneChart produce exactly four rows, North, South, West,
\* Houston in that order, and a region without records has zero statistics.
C3_FourRowsInOrder ==
    AggDone({"DryVsRainyChart", "HeatwavesByZoneChart"})
    => /\ ~aggOutput.threw
       /\ Len(aggOutput.rows) = 4
       /\ \A k \in 1..4 :
            LET row == aggOutput.rows[k]
                none == RecordsOf(ZoneTable(aggView), aggInput,
                                  DisplayRegions[k]) = <<>>
            IN  IF aggView = "DryVsRainyChart"
                THEN /\ row.region = DisplayRegions[k]
                     /\ none => row.dry = Num(0) /\ row.rainy = Num(0)
                ELSE /\ row.zone = DisplayRegions[k]
                     /\ none => row.heatwaves = Num(0)

\* the region of a row of ExtremeHeatLoadTable or MetricsCard as a string
RowRegion(row) ==
    IF aggView = "ExtremeHeatLoadTable" THEN row.region.s ELSE row.region

\* C4: in ExtremeHeatLoadTable and MetricsCard the output has a row for each
\* of North, South, West and Houston whatever the input, a region without
\* records appearing with default statistics.
C4_AllFourRegionsAppear ==
    AggDone({"ExtremeHeatLoadTable", "MetricsCard"})
    => /\ ~aggOutput.threw
       /\ \A r \in DisplayRegionSet :
            \E k \in 1..Len(aggOutput.rows) : RowRegion(aggOutput.rows[k]) = r

(***************************************************************************)
(* Properties of the fetch lifecycle (specifications Spec and FairSpec).   *)
(***************************************************************************)
\* some request receives its response
ResolveSome ==
    \E req \in inflight :
        \/ ResolveReject(req)
        \/ \E response \in ErrorResponses : ResolveHttpError(req, response)
        \/ ResolveBadJson(req)
        \/ \E apiData \in Responses(req.view) : ResolveSuccess(req, apiData)

\* every issued request eventually receives a response
FairSpec == Spec /\ WF_vars(ResolveSome)

\* the two most recent resolutions of view v
PrevResolved(v) == log[v][Len(log[v]) - 1]

LastResolved(v) == log[v][Len(log[v])]

\* they belong to requests that were in flight together, and no request of
\* v is in flight any more
BothResolved(v) ==
    /\ InflightOf(v) = {}
    /\ Len(log[v]) >= 2
    /\ LastResolved(v).seq \in PrevResolved(v).pending

C5_LastResolvedStored ==
    \A v \in mounted :
        (BothResolved(v) /\ PrevResolved(v).stored /\ LastResolved(v).stored)
        => data[v] = LastResolved(v).rows

C5_NoLaterCorrection ==
    \A v \in Views :
        (InflightOf(v) = {} /\ issued'[v] = issued[v]) => data'[v] = data[v]

\* C5: when two overlapping requests of a view both succeed, the stored data
\* after both have resolved is the aggregation of the response that resolved
\* last, also when that is the request for the old range; with nothing in
\* flight the data does not change until a new request is issued.
C5_LastResolvedWins == []C5_LastResolvedStored /\ [][C5_NoLaterCorrection]_vars

\* C5 witness: the request for the old range resolved after the request for
\* the committed range, and its data is what the view stores and shows.
C5_Witness ==
    \E v \in mounted :
        /\ BothResolved(v)
        /\ PrevResolved(v).stored /\ LastResolved(v).stored
        /\ LastResolved(v).seq < PrevResolved(v).seq
        /\ PrevResolved(v).oid = dateRange.oid
        /\ LastResolved(v).oid # dateRange.oid
        /\ LastResolved(v).rows # PrevResolved(v).rows
        /\ data[v] = LastResolved(v).rows
        /\ Render(v) = "content"

\* C6: when of two overlapping requests of a view the first to resolve fails
\* and the last to resolve succeeds, the view afterwards holds the successful
\* response's data and shows no error message.
C6_SuccessAfterFailureShown ==
    \A v \in mounted :
        (BothResolved(v) /\ ~PrevResolved(v).stored /\ LastResolved(v).stored)
        => /\ data[v] = LastResolved(v).rows
           /\ error[v] = NoError
           /\ Render(v) # "error"

Contains(message, token) == \E i \in 1..Len(message) : message[i] = token

\* C7: in every view a response with a non-success status leaves an error
\* message that contains the numeric status code, loading = false and the
\* data as it was.
C7_ErrorShowsStatusCode ==
    [][\A req \in inflight : \A response \in ErrorResponses :
          ResolveHttpError(req, response)
          => /\ Contains(error'[req.view], response.status)
             /\ ~loading'[req.view]
             /\ data'[req.view] = data[req.view]]_vars

InflightOfNext(v) == {r \in inflight' : r.view = v}

\* a request of v completes in this step
Completes(v) == InflightOfNext(v) # InflightOf(v) /\ issued'[v] = issued[v]

C8_CompletionClearsLoading == \A v \in Views : Completes(v) => ~loading'[v]

C8_Settled == inflight = {} /\ \A v \in mounted : ~loading[v]

\* C8: every completion of a request, whatever its outcome, sets the view's
\* loading flag to false; when every request resolves and the triggers have
\* ceased, the view reaches and keeps loading = false.
C8_LoadingCleared == [][C8_CompletionClearsLoading]_vars /\ <>[]C8_Settled

\* C8 witness: a request failed while aggregating, another one is still in
\* flight, and loading is false.
C8_Witness ==
    \E v \in mounted :
        /\ log[v] # <<>>
        /\ ~LastResolved(v).stored
        /\ error[v] = TypeErrorUndefined.message
        /\ InflightOf(v) # {}
        /\ ~loading[v]

C9_CommitOnlyInApply ==
    /\ dateRange' # dateRange
         => applyDateRange /\ dateRange' = tempDateRange
            /\ tempDateRange' = tempDateRange
    /\ tempDateRange' # tempDateRange
         => /\ dateRange' = dateRange
            /\ \/ \E d \in StartInputs : SetTempStartDate(d)
               \/ \E d \in EndInputs : SetTempEndDate(d)

\* C9: the committed range changes only in applyDateRange, which sets it to
\* the draft and leaves the draft alone; setTempDateRange changes only the
\* draft; a committed range that was never replaced is the seeded default.
C9_FilterStore ==
    /\ [](dateRange.oid = 0 => dateRange = Range(0, "2010-06-01", "2011-01-01"))
    /\ [][C9_CommitOnlyInApply]_vars

\* C9 witness: the From input was cleared and Update committed the draft:
\* the committed range is the edited draft, no longer the seeded default.
C9_Witness ==
    /\ dateRange.oid = 1
    /\ tempDateRange = dateRange
    /\ dateRange # initialRange
    /\ dateRange.startDate = ""

\* C10 as stated: a view issues a request only in a step that commits a new
\* date range.
C10_CommitSoleTrigger ==
    [][\A v \in Views : issued'[v] # issued[v] => dateRange' # dateRange]_vars

\* C10 as amended: a mounted view issues a request only when the committed
\* range changes or, for the views that depend on it, when the selected
\* forecast model changes; editing the draft or selecting a region / zone
\* issues none.
C10_TriggersAreCommitOrModel ==
    [][\A v \in Views :
          issued'[v] # issued[v]
          => \/ dateRange' # dateRange
             \/ v \in ModelViews /\ selectedModel' # selectedModel]_vars

\* C10 witness: the draft was edited and a region selected without a
\* request, and a model change issued the view's second request under the
\* initial committed range.
C10_Witness ==
    \E v \in mounted \cap ModelViews :
        /\ selected[v] # RegionDefault(v)
        /\ tempDateRange.oid # dateRange.oid
        /\ dateRange = initialRange
        /\ selectedModel # "Statistical Model"
        /\ issued[v] = 2

(***************************************************************************)
(* Region / zone selection.                                                *)
(***************************************************************************)
\* C11 as stated: every change of the selected region or zone of a view with
\* a select issues a new request of that view.
C11_RegionChangeRefetches ==
    [][\A v \in RegionSelectViews :
          selected'[v] # selected[v] => issued'[v] = issued[v] + 1]_vars

\* C11 as amended: a change of a view's selected region or zone issues no
\* request and leaves every view's stored data, error and loading flag as
\* they were; the view re-filters the rows it already holds.
C11_RegionChangeKeepsData ==
    [][\A v \in Views :
          selected'[v] # selected[v]
          => /\ issued' = issued
             /\ inflight' = inflight
             /\ data' = data
             /\ error' = error
             /\ loading' = loading]_vars

\* C11 witness: the view's only request has resolved, North was selected
\* afterwards without a second request, and the view shows the North rows of
\* the data it holds.
C11_Witness ==
    \E v \in mounted \cap RegionSelectViews :
        /\ selected[v] = "North"
        /\ issued[v] = 1
        /\ InflightOf(v) = {}
        /\ Render(v) = "content"
        /\ Displayed(v) # data[v]

(***************************************************************************)
(* Query strings.  A string that goes into a query is a sequence of        *)
(* tokens: a token is a run of characters that the                         *)
(* application/x-www-form-urlencoded serializer leaves alone (letters,     *)
(* digits, * - . _) or one single other character.                         *)
(***************************************************************************)
RECURSIVE Text(_)
\* the string a token sequence spells
Text(tokens) == IF tokens = <<>> THEN "" ELSE Head(tokens) \o Text(Tail(tokens))

\* URLSearchParams.toString(): the serializer's treatment of one token
UrlEncodeToken(tok) ==
    CASE tok = ":" -> "%3A"
      [] tok = " " -> "+"
      [] tok = "&" -> "%26"
      [] tok = "=" -> "%3D"
      [] tok = "+" -> "%2B"
      [] OTHER -> tok

UrlEncode(tokens) == [k \in 1..Len(tokens) |-> UrlEncodeToken(tokens[k])]

\* what the server's parser makes of one token of a query
UrlDecodeToken(tok) ==
    CASE tok = "%3A" -> ":"
      [] tok = "+" -> " "
      [] tok = "%26" -> "&"
      [] tok = "%3D" -> "="
      [] tok = "%2B" -> "+"
      [] OTHER -> tok

UrlDecode(tokens) == [k \in 1..Len(tokens) |-> UrlDecodeToken(tokens[k])]

Digits == <<"0", "1", "2", "3", "4", "5", "6", "7", "8", "9">>

RECURSIVE NumberToString(_)
\* n.toString() of a non-negative integer
NumberToString(n) ==
    IF n < 10 THEN Digits[n + 1]
    ELSE NumberToString(n \div 10) \o Digits[(n % 10) + 1]

\* the value of a date input: "" or YYYY-MM-DD
DateText(d) == IF d = "" THEN <<>> ELSE <<d>>

\* an end of day that is midnight
EndOfDayMidnight(d) == DateText(d) \o <<"T00", ":", "00", ":", "00">>

\* `${dateRange.startDate}T00:00:00`
StartOfDay(d) == DateText(d) \o <<"T00", ":", "00", ":", "00">>

\* `${dateRange.endDate}T23:59:59`
EndOfDay(d) == DateText(d) \o <<"T23", ":", "59", ":", "59">>

\* the endpoints that take timestamps
TimestampViews ==
    {"LoadByRegionChart", "HistoricalForecastCard", "MetricsCard",
     "OutlierDetectionCard"}

\* a mapping that passes Prophet on to the API
modelParamProphet(model) ==
    IF model = "Statistical Model" THEN "statistical"
    ELSE IF model = "XGBoost" THEN "xgb" ELSE "prophet"

\* selectedModel === "Statistical Model" ? "statistical" :
\* selectedModel === "XGBoost" ? "xgb" : "statistical"
modelParam(model) ==
    IF model = "Statistical Model" THEN "statistical"
    ELSE IF model = "XGBoost" THEN "xgb" ELSE "statistical"

\* new URLSearchParams({...}) of a view
InitialParams(v) ==
    CASE v = "OutlierDetectionCard" ->
            <<<<"std_dev_threshold", <<NumberToString(STD_DEV_THRESHOLD)>>>>,
              <<"limit", <<"1000">>>>>>
      [] v = "HeatwavesByZoneChart" ->
            <<<<"min_temp_f", <<"100">>>>, <<"min_days", <<"3">>>>>>
      [] OTHER -> <<>>

\* the parameter list of view v's request: <<name, value>> pairs in the order
\* they are appended
Params(v, range, model) ==
    LET p0 == InitialParams(v)
        p1 == IF range.startDate # ""
              THEN Append(p0, <<"start_date",
                                IF v \in TimestampViews
                                THEN StartOfDay(range.startDate)
                                ELSE DateText(range.startDate)>>)
              ELSE p0
        p2 == IF range.endDate # ""
              THEN Append(p1, <<"end_date",
                                IF v \in TimestampViews
                                THEN EndOfDay(range.endDate)
                                ELSE DateText(range.endDate)>>)
              ELSE p1
    IN  IF v \in ModelViews
        THEN Append(p2, <<"model", <<modelParam(model)>>>>)
        ELSE p2

RECURSIVE ParamsToTokens(_)
\* params.toString() as tokens: name=value pairs joined by &
ParamsToTokens(params) ==
    IF params = <<>> THEN <<>>
    ELSE UrlEncode(<<Head(params)[1]>>) \o <<"=">> \o UrlEncode(Head(params)[2])
         \o (IF Len(params) > 1 THEN <<"&">> ELSE <<>>)
         \o ParamsToTokens(Tail(params))

Endpoint(v) ==
    CASE v = "LoadByRegionChart" -> "/load/hourly"
      [] v = "HeatwavesByZoneChart" -> "/weather/heatwaves"
      [] v = "ExtremeHeatLoadTable" -> "/load/peak-load-extreme-heat"
      [] v = "DryVsRainyChart" -> "/weather/precipitation"
      [] v = "HistoricalForecastCard" -> "/load/comparison"
      [] v = "MetricsCard" -> "/forecast/metrics"
      [] v = "OutlierDetectionCard" -> "/load/outliers"

\* the request line of view v for a committed range and model
QueryOf(v, range, model) ==
    LET params == Params(v, range, model)
    IN  [path |-> Endpoint(v), params |-> params,
         query |-> Text(ParamsToTokens(params))]

(***************************************************************************)
(* The query construction on its own: a view builds its request from a     *)
(* committed range and a selected model.                                   *)
(***************************************************************************)
DateInputs == {"", "2010-06-01", "2010-06-02", "2011-01-01"}

InitQuery ==
    /\ dateRange \in {Range(0, s, e) : s \in DateInputs, e \in DateInputs}
    /\ tempDateRange = dateRange
    /\ nextOid = 0
    /\ selectedModel \in ModelOptions
    /\ selected = [v \in Views |-> RegionDefault(v)]
    /\ mounted = {}
    /\ data = [v \in Views |-> DataInit(v)]
    /\ loading = [v \in Views |-> TRUE]
    /\ error = [v \in Views |-> NoError]
    /\ thresholds = ThresholdsInit
    /\ dateLabels = DateLabelsInit
    /\ issued = [v \in Views |-> 0]
    /\ inflight = {}
    /\ log = [v \in Views |-> <<>>]
    /\ aggView \in Views
    /\ aggInput = <<>>
    /\ aggOutput = Rows(<<>>)
    /\ aggPc = "query"

\* the view builds params and the URL of its request
BuildQuery ==
    /\ aggPc = "query"
    /\ aggOutput' = QueryOf(aggView, dateRange, selectedModel)
    /\ aggPc' = "built"
    /\ UNCHANGED <<storeVars, selectedModel, selected, mounted, viewVars,
                   inflight, issued, log, aggView, aggInput>>

NextQuery == BuildQuery

SpecQuery == InitQuery /\ [][NextQuery]_vars

\* the position of parameter name in a parameter list (0 when absent)
ParamIndex(params, name) ==
    IF \E i \in 1..Len(params) : params[i][1] = name
    THEN CHOOSE i \in 1..Len(params) : params[i][1] = name
    ELSE 0

ParamValue(params, name) == params[ParamIndex(params, name)][2]

\* a request of a timestamp endpoint was built from two non-empty dates
TimestampQueryBuilt ==
    /\ aggPc = "built"
    /\ aggView \in TimestampViews
    /\ dateRange.startDate # ""
    /\ dateRange.endDate # ""

\* start_date is s followed by T00:00:00, end_date is e followed by
\* T23:59:59, and start_date precedes end_date in the parameter list
C12_DayBoundaries ==
    TimestampQueryBuilt
    => LET params == aggOutput.params
       IN  /\ ParamIndex(params, "start_date") > 0
           /\ ParamIndex(params, "start_date") < ParamIndex(params, "end_date")
           /\ Text(ParamValue(params, "start_date"))
                = dateRange.startDate \o "T00:00:00"
           /\ Text(ParamValue(params, "end_date"))
                = dateRange.endDate \o "T23:59:59"

HourlyLoadScenario ==
    /\ aggPc = "built"
    /\ aggView = "LoadByRegionChart"
    /\ dateRange.startDate = "2010-06-01"
    /\ dateRange.endDate = "2010-06-02"

\* C12 as stated: the day boundaries, and the hourly-load request for
\* 2010-06-01..2010-06-02 has the query string
\* start_date=2010-06-01T00:00:00&end_date=2010-06-02T23:59:59.
C12_QueryStringLiteral ==
    /\ C12_DayBoundaries
    /\ HourlyLoadScenario
       => aggOutput.query
            = "start_date=2010-06-01T00:00:00&end_date=2010-06-02T23:59:59"

\* C12 as amended: the day boundaries hold of the parameter values; the
\* query string carries them percent-encoded (each : as %3A), so the
\* hourly-load request for 2010-06-01..2010-06-02 has the query string
\* start_date=2010-06-01T00%3A00%3A00&end_date=2010-06-02T23%3A59%3A59, and
\* decoding a query gives back the unencoded pairs.
C12_QueryStringEncoded ==
    /\ C12_DayBoundaries
    /\ HourlyLoadScenario
       => aggOutput.query
            = "start_date=2010-06-01T00%3A00%3A00&end_date=2010-06-02T23%3A59%3A59"
    /\ TimestampQueryBuilt
       => Text(UrlDecode(ParamsToTokens(aggOutput.params)))
            = Text(ParamsToTokens(
                [k \in 1..Len(aggOutput.params) |->
                    <<aggOutput.params[k][1],
                      <<Text(aggOutput.params[k][2])>>>>]))

\* C12 witness: the outlier request, whose dates follow two fixed
\* parameters, built for 2010-06-01..2010-06-02.
C12_Witness ==
    /\ TimestampQueryBuilt
    /\ aggView = "OutlierDetectionCard"
    /\ dateRange.startDate = "2010-06-01"
    /\ dateRange.endDate = "2010-06-02"
    /\ aggOutput.query =
         "std_dev_threshold=3&limit=1000&start_date=2010-06-01T00%3A00%3A00&end_date=2010-06-02T23%3A59%3A59"

(***************************************************************************)
(* The mean accumulators on their own: DryVsRainyChart and MetricsCard run *)
(* on a response array of at most MaxFold records.                         *)
(***************************************************************************)
\* the smallest load at which adding 1 is rounded away
BigLoad == Pow2(MantissaBits)

MeanDryRecords ==
    {[zone |-> z, rainy_day |-> r, avg_load_mw |-> p[1], num_days |-> p[2]] :
        z \in {"north", "north_c"}, r \in BOOLEAN,
        p \in {<<100, 1>>, <<200, 5>>}}
    \cup {[zone |-> "north", rainy_day |-> r, avg_load_mw |-> 1,
            num_days |-> 1] : r \in BOOLEAN}
    \cup {[zone |-> z, rainy_day |-> FALSE, avg_load_mw |-> BigLoad,
            num_days |-> 1] : z \in {"north", "constructor"}}

MeanMetricsRecords ==
    {[region |-> z, n |-> n, mse |-> p[1], mae |-> p[2], mape_pct |-> p[3],
      r2 |-> p[4]] :
        z \in {"north", "north_c"}, n \in {0, 1, 2},
        p \in {<<4, 2, 10, 1>>, <<16, 3, 20, 0>>}}
    \cup {[region |-> z, n |-> 1, mse |-> 16, mae |-> 3, mape_pct |-> 20,
            r2 |-> 0] : z \in {"coast", "constructor", "ercot"}}

MeanViews == {"DryVsRainyChart", "MetricsCard"}

MeanRecords(v) ==
    IF v = "DryVsRainyChart" THEN MeanDryRecords ELSE MeanMetricsRecords

InitMean ==
    /\ dateRange = initialRange
    /\ tempDateRange = initialRange
    /\ nextOid = 0
    /\ selectedModel = "Statistical Model"
    /\ selected = [v \in Views |-> RegionDefault(v)]
    /\ mounted = {}
    /\ data = [v \in Views |-> DataInit(v)]
    /\ loading = [v \in Views |-> TRUE]
    /\ error = [v \in Views |-> NoError]
    /\ thresholds = ThresholdsInit
    /\ dateLabels = DateLabelsInit
    /\ issued = [v \in Views |-> 0]
    /\ inflight = {}
    /\ log = [v \in Views |-> <<>>]
    /\ aggView \in MeanViews
    /\ aggInput \in SeqsUpTo(MeanRecords(aggView), MaxFold)
    /\ aggOutput = Rows(<<>>)
    /\ aggPc = "ready"

NextMean ==
    \/ AggregateDryVsRainy
    \/ AggregateMetrics

SpecMean == InitMean /\ [][NextMean]_vars

\* a response with its records rearranged by the permutation f of 1..Len
Permuted(apiData, f) == [k \in 1..Len(apiData) |-> apiData[f[k]]]

\* an outcome without the order of its rows
RowSet(out) == [threw |-> out.threw, rows |-> {out.rows[k] : k \in 1..Len(out.rows)}]

\* the accumulators of a view after folding apiData into acc
Fold(v, acc, apiData) ==
    IF v = "DryVsRainyChart" THEN DryForEach(acc, apiData, 1)
    ELSE MetricsForEach(acc, apiData, 1)

\* folding apiData into acc in two parts, the first k records and the rest
FoldInTwo(v, acc, apiData, k) ==
    LET first == Fold(v, acc, SubSeq(apiData, 1, k))
        rest == SubSeq(apiData, k + 1, Len(apiData))
    IN  IF v = "DryVsRainyChart"
        THEN IF first.threw THEN first ELSE Fold(v, first.regionData, rest)
        ELSE Fold(v, first, rest)

AccInit(v) == IF v = "DryVsRainyChart" THEN DryRegionDataInit ELSE <<>>

\* C13: in DryVsRainyChart and MetricsCard every permutation of the response
\* records yields the same statistic values for each region, and folding
\* the records in two parts gives the accumulators of folding them at once.
C13_OrderIndependent ==
    AggDone(MeanViews)
    => /\ \A f \in Permutations(1..Len(aggInput)) :
            \A out \in Aggregate(aggView, Permuted(aggInput, f)) :
                RowSet(out) = RowSet(aggOutput)
       /\ \A k \in 0..Len(aggInput) :
            FoldInTwo(aggView, AccInit(aggView), aggInput, k)
              = Fold(aggView, AccInit(aggView), aggInput)

\* the records of a metrics response that regionToDisplayMap maps to region r
MetricsOf(apiData, r) ==
    SelectSeq(apiData, LAMBDA metric :
        metric.region \in DOMAIN regionToDisplayMap
        /\ regionToDisplayMap[metric.region] = r)

RECURSIVE SumField(_, _)
\* the sum of a field over records, added in their order
SumField(recs, field) ==
    IF recs = <<>> THEN Num(0)
    ELSE NumAdd(SumField(SubSeq(recs, 1, Len(recs) - 1), field),
                Num(recs[Len(recs)][field]))

\* the simple arithmetic mean of a field over a non-empty sequence of records
SimpleMean(recs, field) == NumDiv(SumField(recs, field), Num(Len(recs)))

UnitWeights == \A i \in 1..Len(aggInput) : aggInput[i].n = 1

\* C14: in MetricsCard, when every record has weight n = 1, the mape, r2,
\* mse and mae of each output row of a display region are the simple
\* arithmetic means of mape_pct, r2, mse and mae over the records mapped to
\* that region.
C14_UnitWeightsSimpleMean ==
    (AggDone({"MetricsCard"}) /\ UnitWeights)
    => \A k \in 1..Len(aggOutput.rows) :
          LET row == aggOutput.rows[k]
              recs == MetricsOf(aggInput, row.region)
          IN  row.region \in DisplayRegionSet
              => /\ recs # <<>>
                 /\ row.mape = SimpleMean(recs, "mape_pct")
                 /\ row.r2 = SimpleMean(recs, "r2")
                 /\ row.mse = SimpleMean(recs, "mse")
                 /\ row.mae = SimpleMean(recs, "mae")

\* C14 witness: unit weights, north with mse 4 and north_c with mse 16 give
\* the North row mse 10, beside a Houston row.
C14_Witness ==
    /\ AggDone({"MetricsCard"})
    /\ UnitWeights
    /\ Len(aggInput) = 3
    /\ \E k \in 1..Len(aggOutput.rows) :
          /\ aggOutput.rows[k].region = "North"
          /\ Len(MetricsOf(aggInput, "North")) = 2
          /\ aggOutput.rows[k].mse = Num(10)
          /\ aggOutput.rows[k].mae = Frac(5, 2)
    /\ \E k \in 1..Len(aggOutput.rows) : aggOutput.rows[k].region = "Houston"

\* the records of a precipitation response that zoneToRegionMap maps to
\* region r and whose rainy_day is rainy
DryRecordsOf(apiData, r, rainy) ==
    SelectSeq(apiData, LAMBDA item :
        /\ item.zone \in DOMAIN zoneToRegionMap
        /\ zoneToRegionMap[item.zone] = r
        /\ item.rainy_day = rainy)

\* C15: whenever DryVsRainyChart produces its rows, a region's dry (resp.
\* rainy) value is the unweighted arithmetic mean of avg_load_mw over the
\* records that map to the region and have rainy_day false (resp. true),
\* their sum taken in response order and divided by their number; it is a
\* function of those records' avg_load_mw alone.
C15_DryRainyUnweightedMean ==
    (AggDone({"DryVsRainyChart"}) /\ ~aggOutput.threw)
    => \A k \in 1..Len(aggOutput.rows) :
          LET row == aggOutput.rows[k]
              dry == DryRecordsOf(aggInput, row.region, FALSE)
              rainy == DryRecordsOf(aggInput, row.region, TRUE)
          IN  /\ dry # <<>> => row.dry = SimpleMean(dry, "avg_load_mw")
              /\ rainy # <<>> => row.rainy = SimpleMean(rainy, "avg_load_mw")

\* C15 witness: dry records north = 100 and north_c = 200 beside a rainy
\* north record with another num_days give North dry = 150.
C15_Witness ==
    /\ AggDone({"DryVsRainyChart"})
    /\ ~aggOutput.threw
    /\ Len(aggInput) = 3
    /\ \E i, j, l \in 1..3 :
          /\ aggInput[i] = [zone |-> "north", rainy_day |-> FALSE,
                            avg_load_mw |-> 100, num_days |-> 1]
          /\ aggInput[j] = [zone |-> "north_c", rainy_day |-> FALSE,
                            avg_load_mw |-> 200, num_days |-> 5]
          /\ aggInput[l].rainy_day /\ aggInput[l].zone = "north"
          /\ aggInput[l].avg_load_mw = 1
    /\ aggOutput.rows[1].region = "North"
    /\ aggOutput.rows[1].dry = Num(150)
    /\ aggOutput.rows[1].rainy = Num(1)

(***************************************************************************)
(* Further properties of the fetch lifecycle.                              *)
(***************************************************************************)
\* C16: when the only outstanding request of a view resolves successfully
\* with an empty record array, the view renders its "no data" state: neither
\* the loading indicator, nor an error message, nor a chart or table.
C16_EmptyResponseShowsNoData ==
    [][\A req \in inflight :
          (InflightOf(req.view) = {req} /\ ResolveSuccess(req, <<>>))
          => Render(req.view)' = "empty"]_vars

\* C17 as stated: in every reachable state each view has at most one of its
\* requests in flight.
C17_AtMostOneInFlight ==
    \A v \in Views : Cardinality(InflightOf(v)) <= 1

\* every request in flight is one the view issued, and no two share a number
C17_InFlightWereIssued ==
    \A v \in Views :
        /\ \A r \in InflightOf(v) : r.seq \in 1..issued[v]
        /\ \A r, q \in InflightOf(v) : r.seq = q.seq => r = q

\* a step issues at most one request per view and never withdraws one: a
\* request leaves the set in flight only by resolving, one per step
C17_OnePerRun ==
    \A v \in Views :
        IF issued'[v] # issued[v]
        THEN /\ issued'[v] = issued[v] + 1
             /\ InflightOf(v) \subseteq InflightOfNext(v)
             /\ Cardinality(InflightOfNext(v) \ InflightOf(v)) = 1
             /\ \A r \in InflightOfNext(v) \ InflightOf(v) : r.seq = issued'[v]
        ELSE /\ InflightOfNext(v) \subseteq InflightOf(v)
             /\ Cardinality(InflightOf(v) \ InflightOfNext(v)) <= 1

\* C17 as amended: each run of a view's effect (mount, a committed range, a
\* model change) issues exactly one request and none is cancelled, so a view
\* has at most one request in flight per run of its effect; a run that
\* starts before the previous request has resolved leaves both in flight.
C17_OneInFlightPerRun ==
    []C17_InFlightWereIssued /\ [][C17_OnePerRun]_vars

\* C17 witness: the committed range changed before the mount request
\* resolved, and the view has both requests in flight.
C17_Witness ==
    \E v \in mounted :
        /\ Cardinality(InflightOf(v)) = 2
        /\ issued[v] = 2
        /\ \E r, q \in InflightOf(v) :
              r.oid = 0 /\ q.oid = dateRange.oid /\ dateRange.oid # 0

(***************************************************************************)
(* A page: all its views are mounted together, each with its mount request *)
(* in flight; the draft is edited while the responses arrive.              *)
(***************************************************************************)
Pages == {AnalysisViews, ForecastingViews}

InitPage ==
    /\ dateRange = initialRange
    /\ tempDateRange = initialRange
    /\ nextOid = 0
    /\ selectedModel = "Statistical Model"
    /\ selected = [v \in Views |-> RegionDefault(v)]
    /\ mounted \in Pages
    /\ data = [v \in Views |-> DataInit(v)]
    /\ loading = [v \in Views |-> TRUE]
    /\ error = [v \in Views |-> NoError]
    /\ thresholds = ThresholdsInit
    /\ dateLabels = DateLabelsInit
    /\ issued = [v \in Views |-> IF v \in mounted THEN 1 ELSE 0]
    /\ inflight = {Request(v, 1, initialRange, "Statistical Model") : v \in mounted}
    /\ log = [v \in Views |-> <<>>]
    /\ aggView = "none"
    /\ aggInput = <<>>
    /\ aggOutput = Rows(<<>>)
    /\ aggPc = "off"

NextPage ==
    \/ \E d \in StartInputs : SetTempStartDate(d)
    \/ \E d \in EndInputs : SetTempEndDate(d)
    \/ \E req \in inflight : ResolveReject(req)
    \/ \E req \in inflight : \E response \in ErrorResponses :
            ResolveHttpError(req, response)
    \/ \E req \in inflight : ResolveBadJson(req)
    \/ \E req \in inflight : \E apiData \in Responses(req.view) :
            ResolveSuccess(req, apiData)

SpecPage == InitPage /\ [][NextPage]_vars

\* every request in flight was built from the committed range
C18_SameCommittedRange ==
    \A r \in inflight :
        /\ r.view \in mounted
        /\ r.oid = dateRange.oid
        /\ r.startDate = dateRange.startDate
        /\ r.endDate = dateRange.endDate

\* the step that resolves a request of view v leaves every other view and
\* both date ranges as they were
C18_ResolutionFrame ==
    \A req \in inflight :
        inflight' = inflight \ {req}
        => /\ \A w \in Views \ {req.view} :
                /\ data'[w] = data[w]
                /\ error'[w] = error[w]
                /\ loading'[w] = loading[w]
           /\ req.view # "OutlierDetectionCard" => thresholds' = thresholds
           /\ req.view # "HistoricalForecastCard" => dateLabels' = dateLabels
           /\ dateRange' = dateRange
           /\ tempDateRange' = tempDateRange

MetricsKey(metric) ==
    LET mapped == Lookup(regionToDisplayMap, metric.region)
    IN  IF Truthy(mapped) THEN mapped.s ELSE metric.region

RECURSIVE TotalWeight(_, _)
\* the sum of n over the records of a response grouped under key
TotalWeight(apiData, key) ==
    IF apiData = <<>> THEN 0
    ELSE (IF MetricsKey(Head(apiData)) = key THEN Head(apiData).n ELSE 0)
         + TotalWeight(Tail(apiData), key)

\* C19: the rows of DryVsRainyChart and MetricsCard never carry NaN: a
\* region without dry (resp. rainy) records has dry = 0 (resp. rainy = 0),
\* and a metrics group whose total weight is 0 has mape = r2 = mse = mae = 0.
C19_MeansNeverNaN ==
    (AggDone(MeanViews) /\ ~aggOutput.threw)
    => \A k \in 1..Len(aggOutput.rows) :
          LET row == aggOutput.rows[k]
          IN  IF aggView = "DryVsRainyChart"
              THEN /\ ~IsNaN(row.dry) /\ ~IsNaN(row.rainy)
                   /\ DryRecordsOf(aggInput, row.region, FALSE) = <<>>
                        => row.dry = Num(0)
                   /\ DryRecordsOf(aggInput, row.region, TRUE) = <<>>
                        => row.rainy = Num(0)
              ELSE /\ ~IsNaN(row.mape) /\ ~IsNaN(row.r2)
                   /\ ~IsNaN(row.mse) /\ ~IsNaN(row.mae)
                   /\ TotalWeight(aggInput, row.region) = 0
                        => /\ row.mape = Num(0) /\ row.r2 = Num(0)
                           /\ row.mse = Num(0) /\ row.mae = Num(0)

\* C19 witness: the North group of MetricsCard holds two records of weight
\* 0 with non-zero metrics and its row is all zero, beside a Houston row
\* with a mean.
C19_Witness ==
    /\ AggDone({"MetricsCard"})
    /\ Len(aggInput) = 3
    /\ Len(MetricsOf(aggInput, "North")) = 2
    /\ TotalWeight(aggInput, "North") = 0
    /\ \E k \in 1..Len(aggOutput.rows) :
          /\ aggOutput.rows[k].region = "North"
          /\ aggOutput.rows[k].mse = Num(0)
          /\ aggOutput.rows[k].r2 = Num(0)
    /\ \E k \in 1..Len(aggOutput.rows) :
          /\ aggOutput.rows[k].region = "Houston"
          /\ aggOutput.rows[k].mse = Num(16)

(***************************************************************************)
(* Row order (specification SpecAgg).                                      *)
(***************************************************************************)
\* the region of a row of the view whose pipeline ran, as a string
RegionOfRow(row) ==
    CASE aggView = "ExtremeHeatLoadTable" -> row.region.s
      [] aggView = "HeatwavesByZoneChart" -> row.zone
      [] OTHER -> row.region

RegionsOf(rows) == [k \in 1..Len(rows) |-> RegionOfRow(rows[k])]

\* the position of s in the sequence order (0 when absent)
PositionIn(order, s) ==
    IF \E i \in 1..Len(order) : order[i] = s
    THEN CHOOSE i \in 1..Len(order) : order[i] = s
    ELSE 0

\* regions follows order: each is in it, at a later place than the one before
Follows(order, regions) ==
    /\ \A k \in 1..Len(regions) : PositionIn(order, regions[k]) > 0
    /\ \A k \in 1..(Len(regions) - 1) :
          PositionIn(order, regions[k]) < PositionIn(order, regions[k + 1])

\* the order a view's rows are to have
RowOrder(v) ==
    IF v = "ExtremeHeatLoadTable"
    THEN <<"Houston", "North", "South", "West">>
    ELSE DisplayRegions

\* C20: the rows of DryVsRainyChart, HeatwavesByZoneChart and MetricsCard
\* come in the order North, South, West, Houston and those of
\* ExtremeHeatLoadTable ascending by region name, whatever the order of the
\* records in the response, and a single-region post-filter keeps the order.
C20_RowOrderDeterministic ==
    (AggDone(AggViews) /\ ~aggOutput.threw)
    => /\ Follows(RowOrder(aggView), RegionsOf(aggOutput.rows))
       /\ \A f \in Permutations(1..Len(aggInput)) :
             \A out \in Aggregate(aggView, Permuted(aggInput, f)) :
                 ~out.threw => RegionsOf(out.rows) = RegionsOf(aggOutput.rows)
       /\ \A r \in DisplayRegionSet :
             Follows(RowOrder(aggView),
                     RegionsOf(SelectSeq(aggOutput.rows,
                                         LAMBDA row : RegionOfRow(row) = r)))

(***************************************************************************)
(* The time-series pipeline of HistoricalForecastCard on its own: a        *)
(* comparison response of at most MaxLen records.  A field of a record     *)
(* that JSON carries as null reads as null, a missing one as undefined.    *)
(***************************************************************************)
Null == [k |-> "null", v |-> 0]

\* what a field of a comparison record may be
FieldInputs == {Absent, Null, Present(10)}

\* a comparison record whose north pair is n, north_c pair is nc and ercot
\* pair is e, the other zones reporting nothing
ComparisonRecords ==
    {[ComparisonRecord(h, Absent, e) EXCEPT
         !.north_actual = n, !.north_expected = n,
         !.north_c_actual = nc, !.north_c_expected = nc] :
        h \in {Hour(2010, 6, 1, 1), Hour(2010, 6, 1, 2)},
        n \in FieldInputs, nc \in FieldInputs, e \in FieldInputs}

InitSeries ==
    /\ dateRange = initialRange
    /\ tempDateRange = initialRange
    /\ nextOid = 0
    /\ selectedModel = "Statistical Model"
    /\ selected = [v \in Views |-> RegionDefault(v)]
    /\ mounted = {}
    /\ data = [v \in Views |-> DataInit(v)]
    /\ loading = [v \in Views |-> TRUE]
    /\ error = [v \in Views |-> NoError]
    /\ thresholds = ThresholdsInit
    /\ dateLabels = DateLabelsInit
    /\ issued = [v \in Views |-> 0]
    /\ inflight = {}
    /\ log = [v \in Views |-> <<>>]
    /\ aggView = "HistoricalForecastCard"
    /\ aggInput \in SeqsUpTo(ComparisonRecords, MaxLen)
    /\ aggOutput = Rows(<<>>)
    /\ aggPc = "ready"

AggregateHistorical == RunAggregate("HistoricalForecastCard")

NextSeries == AggregateHistorical

SpecSeries == InitSeries /\ [][NextSeries]_vars

SeriesRegions == {"All", "North", "South", "West", "Houston"}

\* the fields of a record that hold the observations of a region
ObservationFields(r) ==
    CASE r = "All" -> {"ercot_actual", "ercot_expected"}
      [] r = "North" -> {"north_actual", "north_expected",
                         "north_c_actual", "north_c_expected"}
      [] r = "South" -> {"southern_actual", "southern_expected",
                         "south_c_actual", "south_c_expected"}
      [] r = "West" -> {"west_actual", "west_expected",
                        "far_west_actual", "far_west_expected"}
      [] r = "Houston" -> {"coast_actual", "coast_expected",
                           "east_actual", "east_expected"}

\* the record carries the observations of region r: each field is a number
CarriesObservations(item, r) ==
    \A f \in ObservationFields(r) : item[f].k = "num"

\* the records of a response that carry the observations of region r
ObservedIn(apiData, r) ==
    SelectSeq(apiData, LAMBDA item : CarriesObservations(item, r))

\* C21: in HistoricalForecastCard a record adds one point to a region's
\* series when it carries that region's observations and none otherwise:
\* the series has one point per such record, in response order; a region
\* without observations has an empty series and an empty response yields
\* five empty series.
C21_PointPerObservedRecord ==
    AggDone({"HistoricalForecastCard"})
    => /\ ~aggOutput.threw
       /\ \A r \in SeriesRegions :
            LET series == aggOutput.rows[r]
                observed == ObservedIn(aggInput, r)
            IN  /\ Len(series) = Len(observed)
                /\ \A k \in 1..Len(series) :
                      series[k].time = FormatHour(observed[k].hour_end)
                /\ observed = <<>> => series = <<>>
       /\ aggInput = <<>> => aggOutput.rows = HistoricalRegionDataInit

(***************************************************************************)
(* The zone mappers on their own: each view maps one raw identifier.       *)
(***************************************************************************)
\* LoadByRegionChart: the zones summed into each line of the chart
regionMapping ==
    [North |-> {"north", "north_c"}, South |-> {"southern", "south_c"},
     West |-> {"west", "far_west"}, Houston |-> {"coast", "east"}]

\* HistoricalForecastCard: the zones summed into each region's series
seriesZones ==
    [North |-> {"north", "north_c"}, South |-> {"southern", "south_c"},
     West |-> {"west", "far_west"}, Houston |-> {"coast", "east"}]

\* the region a grouping puts zone z in, undefined when it is in none
GroupOf(grouping, z) ==
    IF \E r \in DOMAIN grouping : z \in grouping[r]
    THEN Str(CHOOSE r \in DOMAIN grouping : z \in grouping[r])
    ELSE Undefined

\* what view v's table (or hard-coded grouping) yields for identifier z
MapZone(v, z) ==
    CASE v = "DryVsRainyChart" -> Lookup(zoneToRegionMap, z)
      [] v = "HeatwavesByZoneChart" -> Lookup(zoneToDisplayMap, z)
      [] v = "ExtremeHeatLoadTable" -> Lookup(xhZoneToRegionMap, z)
      [] v = "MetricsCard" -> Lookup(regionToDisplayMap, z)
      [] v = "OutlierDetectionCard" -> Lookup(odRegionToDisplayMap, z)
      [] v = "LoadByRegionChart" -> GroupOf(regionMapping, z)
      [] v = "HistoricalForecastCard" -> GroupOf(seriesZones, z)

\* the raw identifiers of the ERCOT weather zones
KnownZones ==
    {"north", "north_c", "southern", "south_c", "west", "far_west", "coast",
     "east"}

\* the identifiers handed to the mappers
MapInputs == KnownZones \cup {"ercot", "atlantis", "constructor"}

InitMap ==
    /\ dateRange = initialRange
    /\ tempDateRange = initialRange
    /\ nextOid = 0
    /\ selectedModel = "Statistical Model"
    /\ selected = [v \in Views |-> RegionDefault(v)]
    /\ mounted = {}
    /\ data = [v \in Views |-> DataInit(v)]
    /\ loading = [v \in Views |-> TRUE]
    /\ error = [v \in Views |-> NoError]
    /\ thresholds = ThresholdsInit
    /\ dateLabels = DateLabelsInit
    /\ issued = [v \in Views |-> 0]
    /\ inflight = {}
    /\ log = [v \in Views |-> <<>>]
    /\ aggView \in Views
    /\ aggInput \in {<<z>> : z \in MapInputs}
    /\ aggOutput = Undefined
    /\ aggPc = "map"

\* the view looks the identifier up
LookupZone ==
    /\ aggPc = "map"
    /\ aggOutput' = MapZone(aggView, aggInput[1])
    /\ aggPc' = "mapped"
    /\ UNCHANGED <<storeVars, selectedModel, selected, mounted, viewVars,
                   inflight, issued, log, aggView, aggInput>>

NextMap == LookupZone

SpecMap == InitMap /\ [][NextMap]_vars

\* C22: every view maps a raw identifier to the same result; a known zone
\* maps to exactly one of North, South, West, Houston, and no identifier
\* maps to "All".
C22_MappingIdentical ==
    aggPc = "mapped"
    => /\ \A w \in Views : MapZone(w, aggInput[1]) = aggOutput
       /\ aggInput[1] \in KnownZones
            => aggOutput.t = "string" /\ aggOutput.s \in DisplayRegionSet
       /\ aggOutput # Str("All")

(***************************************************************************)
(* The model parameter (specification SpecQuery).                          *)
(***************************************************************************)
\* the places of the parameters called name in a parameter list
ParamPlaces(params, name) == {i \in 1..Len(params) : params[i][1] = name}

\* C23: every request of HistoricalForecastCard and MetricsCard carries
\* exactly one model parameter; its value is statistical for the selection
\* "Statistical Model", xgb for "XGBoost" and statistical for every other
\* selection the configuration card offers.
C23_ModelParameter ==
    (aggPc = "built" /\ aggView \in ModelViews)
    => LET params == aggOutput.params
           tokens == ParamsToTokens(params)
       IN  /\ Cardinality(ParamPlaces(params, "model")) = 1
           /\ \A i \in ParamPlaces(params, "model") :
                 /\ Len(params[i][2]) = 1
                 /\ params[i][2][1] \in {"statistical", "xgb"}
                 /\ selectedModel = "Statistical Model"
                      => params[i][2][1] = "statistical"
                 /\ selectedModel = "XGBoost" => params[i][2][1] = "xgb"
                 /\ selectedModel \notin {"Statistical Model", "XGBoost"}
                      => params[i][2][1] = "statistical"
                 /\ SubSeq(tokens, Len(tokens) - 2, Len(tokens))
                      = <<"model", "=", params[i][2][1]>>

\* C23 witness: MetricsCard built its request while Prophet was selected:
\* the query ends in model=statistical.
C23_Witness ==
    /\ aggPc = "built"
    /\ aggView = "MetricsCard"
    /\ selectedModel = "Prophet"
    /\ aggOutput.query =
         "start_date=2010-06-01T00%3A00%3A00&end_date=2011-01-01T23%3A59%3A59&model=statistical"

(***************************************************************************)
(* Requests and triggers.                                                  *)
(***************************************************************************)
\* a dependency of view v's effect changes in this step: its orchestrator
\* is triggered
Triggered(v) ==
    /\ v \in mounted
    /\ \/ dateRange' # dateRange
       \/ v \in ModelViews /\ selectedModel' # selectedModel

\* the requests of v that this step puts in flight
NewRequests(v) == InflightOfNext(v) \ InflightOf(v)

\* a triggered view issues exactly one request, whatever it has in flight; a
\* view that is not triggered issues none, in particular not in the step in
\* which one of its requests fails
C24_OneRequestPerTrigger ==
    \A v \in Views :
        IF Triggered(v)
        THEN /\ issued'[v] = issued[v] + 1
             /\ Cardinality(NewRequests(v)) = 1
             /\ InflightOf(v) \subseteq InflightOfNext(v)
        ELSE /\ issued'[v] = issued[v]
             /\ NewRequests(v) = {}

\* the requests a view has issued are its mount request and one per trigger
C24_IssuedCounted ==
    \A v \in Views :
        /\ v \notin mounted => issued[v] = 0 /\ InflightOf(v) = {}
        /\ v \in mounted => issued[v] >= 1
        /\ Cardinality(InflightOf(v)) <= issued[v]

\* C24: each run of a view's orchestrator, on mount or on a change of a
\* dependency, issues exactly one request, also while another is in flight,
\* and a failed request is never re-issued: the requests a view has issued
\* are one per trigger.
C24_NoRetryNoDedup ==
    []C24_IssuedCounted /\ [][C24_OneRequestPerTrigger]_vars

\* C24 witness: the view was triggered twice (mount and one change), both
\* requests failed, and nothing is in flight: no request was re-issued.
C24_Witness ==
    \E v \in mounted :
        /\ issued[v] = 2
        /\ InflightOf(v) = {}
        /\ Len(log[v]) = 2
        /\ ~log[v][1].stored /\ ~log[v][2].stored
        /\ error[v] # NoError

(***************************************************************************)
(* The rows of ExtremeHeatLoadTable (specification SpecAgg).               *)
(***************************************************************************)
\* C25: ExtremeHeatLoadTable emits at most one row per region and only for
\* a region that received a mapped record, so no division is by zero; the
\* row's load is the sum of the contributing median_peak_load_mw, its day
\* count the rounded mean of num_extreme_heat_days and its temperature the
\* mean of threshold_temp_f.
C25_ExtremeRowsFromRecords ==
    AggDone({"ExtremeHeatLoadTable"})
    => /\ ~aggOutput.threw
       /\ \A k \in 1..Len(aggOutput.rows) :
            LET row == aggOutput.rows[k]
                recs == RecordsOf(xhZoneToRegionMap, aggInput, row.region.s)
            IN  /\ row.region.t = "string"
                /\ row.region.s \in DisplayRegionSet
                /\ recs # <<>>
                /\ row.median_peak_load_mw = SumField(recs, "median_peak_load_mw")
                /\ row.num_extreme_heat_days
                     = MathRound(SimpleMean(recs, "num_extreme_heat_days"))
                /\ row.avg_threshold_temp_f = SimpleMean(recs, "threshold_temp_f")
                /\ ~IsNaN(row.num_extreme_heat_days)
                /\ ~IsNaN(row.avg_threshold_temp_f)
       /\ \A k, l \in 1..Len(aggOutput.rows) :
            aggOutput.rows[k].region = aggOutput.rows[l].region => k = l

(***************************************************************************)
(* Failures and the stored data.                                           *)
(***************************************************************************)
\* the newest entry of view v's history after this step
LastResolvedNext(v) == log'[v][Len(log'[v])]

\* a request of v fails in this step: non-success status, rejection, or an
\* exception while parsing or aggregating
Fails(v) == Completes(v) /\ ~LastResolvedNext(v).stored

\* a failure sets the view's error message and clears its loading flag, and
\* leaves the stored data, thresholds and date labels as they were
C26_FailureFrame ==
    \A v \in Views :
        Fails(v)
        => /\ data' = data
           /\ thresholds' = thresholds
           /\ dateLabels' = dateLabels
           /\ error'[v] # NoError
           /\ ~loading'[v]

\* the stored data changes only when a response is stored
C26_OnlySuccessReplaces ==
    \A v \in Views :
        data'[v] # data[v]
        => /\ Completes(v)
           /\ LastResolvedNext(v).stored
           /\ data'[v] = LastResolvedNext(v).rows

\* C26: a failed request leaves the view's stored data unchanged: it only
\* sets the error message and clears loading, so the data of an earlier
\* success stays stored, hidden behind the error message, until the next
\* successful response replaces it.
C26_FailureKeepsData ==
    [][C26_FailureFrame]_vars /\ [][C26_OnlySuccessReplaces]_vars

\* C26 witness: a success stored rows, a later request failed; the view
\* shows the error and still holds the rows.
C26_Witness ==
    \E v \in mounted :
        /\ Len(log[v]) = 2
        /\ log[v][1].stored /\ ~log[v][2].stored
        /\ log[v][1].rows # DataInit(v)
        /\ data[v] = log[v][1].rows
        /\ InflightOf(v) = {}
        /\ Render(v) = "error"

(***************************************************************************)
(* Drafts and commits: a page or a single view is mounted, the draft is    *)
(* edited up to MaxDraftEdits times and committed; no response arrives.    *)
(***************************************************************************)
InitCommit ==
    /\ dateRange = initialRange
    /\ tempDateRange = initialRange
    /\ nextOid = 0
    /\ selectedModel = "Statistical Model"
    /\ selected = [v \in Views |-> RegionDefault(v)]
    /\ mounted \in Pages \cup MountChoices
    /\ data = [v \in Views |-> DataInit(v)]
    /\ loading = [v \in Views |-> TRUE]
    /\ error = [v \in Views |-> NoError]
    /\ thresholds = ThresholdsInit
    /\ dateLabels = DateLabelsInit
    /\ issued = [v \in Views |-> IF v \in mounted THEN 1 ELSE 0]
    /\ inflight = {Request(v, 1, initialRange, "Statistical Model") : v \in mounted}
    /\ log = [v \in Views |-> <<>>]
    /\ aggView = "none"
    /\ aggInput = <<>>
    /\ aggOutput = Rows(<<>>)
    /\ aggPc = "off"

EditDraftStart == \E d \in StartInputs : EditStartDate(d, MaxDraftEdits)

EditDraftEnd == \E d \in EndInputs : EditEndDate(d, MaxDraftEdits)

NextCommit ==
    \/ EditDraftStart
    \/ EditDraftEnd
    \/ applyDateRange

SpecCommit == InitCommit /\ [][NextCommit]_vars

\* the draft has been edited since the previous commit (or since
\* initialization): it is not the object that is committed
DraftEdited == tempDateRange.oid # dateRange.oid

\* the requests view v issues in this step that carry the dates of range
NewRequestsFor(v, range) ==
    {r \in NewRequests(v) :
        r.startDate = range.startDate /\ r.endDate = range.endDate}

\* a step that changes the committed range commits an edited draft and
\* issues one request, for the draft's dates, in every mounted view and in
\* no other
C27_CommitStep ==
    dateRange' # dateRange
    => /\ DraftEdited
       /\ dateRange' = tempDateRange
       /\ \A v \in mounted :
             /\ issued'[v] = issued[v] + 1
             /\ Cardinality(NewRequests(v)) = 1
             /\ NewRequestsFor(v, tempDateRange) = NewRequests(v)
       /\ \A v \in Views \ mounted : issued'[v] = issued[v]

\* no step issues a request without committing
C27_OnlyCommitFetches ==
    (issued' # issued \/ inflight' # inflight) => dateRange' # dateRange

\* Update changes the state exactly when the draft has been edited (below
\* the bound on the requests of a view)
C27_UpdateActsIffEdited ==
    /\ ~DraftEdited => ~ENABLED <<applyDateRange>>_vars
    /\ (DraftEdited /\ CanTrigger(mounted)) => ENABLED <<applyDateRange>>_vars

\* C27: a commit re-fetches exactly when the draft was edited since the
\* previous commit: applyDateRange with an unedited draft stores the same
\* object and issues nothing, and applyDateRange after an edit issues one
\* request in every mounted view, also when the draft's dates equal the
\* committed ones.
C27_CommitRefetchesIffEdited ==
    /\ []C27_UpdateActsIffEdited
    /\ [][C27_CommitStep]_vars
    /\ [][C27_OnlyCommitFetches]_vars

\* C27 witness: the draft was edited and edited back, so it carries the
\* committed dates, and Update issued a second request with the same dates
\* in each view of the page.
C27_Witness ==
    /\ mounted \in Pages
    /\ dateRange.oid = 2
    /\ dateRange.startDate = initialRange.startDate
    /\ dateRange.endDate = initialRange.endDate
    /\ \A v \in mounted :
          /\ issued[v] = 2
          /\ \E r, q \in InflightOf(v) :
                /\ r.oid = 0 /\ q.oid = 2
                /\ r.startDate = q.startDate /\ r.endDate = q.endDate

(***************************************************************************)
(* The loading flag and overlapping requests.                              *)
(***************************************************************************)
C28_LoadingStep ==
    \A v \in Views :
        /\ Completes(v) => ~loading'[v]
        /\ (loading'[v] /\ ~loading[v]) => issued'[v] = issued[v] + 1
        /\ (Completes(v) /\ ~loading[v])
             => /\ LastResolvedNext(v).stored
                    => data'[v] = LastResolvedNext(v).rows
                /\ ~LastResolvedNext(v).stored => error'[v] # NoError

\* C28: the loading flag does not track the outstanding requests: every
\* resolution sets it to false, also while another request of the view is
\* in flight, only the start of a run sets it to true, and a request that
\* resolves while loading is false still replaces the data (or the error).
C28_LoadingNotTracked == [][C28_LoadingStep]_vars

\* C28 witness: two requests overlapped; the first resolution cleared
\* loading while the other request was in flight, and that request's
\* response has since replaced the data, loading being false all along.
C28_Witness ==
    \E v \in mounted :
        /\ Len(log[v]) = 2
        /\ log[v][1].pending = {log[v][2].seq}
        /\ log[v][1].stored /\ log[v][2].stored
        /\ log[v][1].rows # log[v][2].rows
        /\ data[v] = log[v][2].rows
        /\ ~loading[v]
        /\ issued[v] = 2


(***************************************************************************)
(* LoadByRegionChart sampling: the pipeline on responses of every length   *)
(* up to MaxSampleLen, whose records are pairwise different.               *)
(***************************************************************************)
\* n consecutive hourly records, the k-th with load k in every zone
SampleRecords(n) ==
    [k \in 1..n |->
        HourlyRecord(Hour(2010, 6, 1 + (k - 1) \div 24, (k - 1) % 24), k)]

InitSample ==
    /\ dateRange = initialRange
    /\ tempDateRange = initialRange
    /\ nextOid = 0
    /\ selectedModel = "Statistical Model"
    /\ selected = [v \in Views |-> RegionDefault(v)]
    /\ mounted = {}
    /\ data = [v \in Views |-> DataInit(v)]
    /\ loading = [v \in Views |-> TRUE]
    /\ error = [v \in Views |-> NoError]
    /\ thresholds = ThresholdsInit
    /\ dateLabels = DateLabelsInit
    /\ issued = [v \in Views |-> 0]
    /\ inflight = {}
    /\ log = [v \in Views |-> <<>>]
    /\ aggView = "LoadByRegionChart"
    /\ aggInput \in {SampleRecords(n) : n \in 0..MaxSampleLen}
    /\ aggOutput = Rows(<<>>)
    /\ aggPc = "ready"

AggregateLoadByRegion == RunAggregate("LoadByRegionChart")

NextSample == AggregateLoadByRegion

SpecSample == InitSample /\ [][NextSample]_vars

\* chartData: the list handed to sampleData
ChartData == [k \in 1..Len(aggInput) |-> LoadChartPoint(aggInput[k])]

\* the zero-based position in chartData of a stored point (chartData has no
\* two equal points), -1 for a value that is no point of chartData
PositionOf(p) ==
    IF \E k \in 1..Len(ChartData) : ChartData[k] = p
    THEN (CHOOSE k \in 1..Len(ChartData) : ChartData[k] = p) - 1
    ELSE -1

Sampled == aggOutput.rows

SampleRan == aggPc = "done" /\ aggView = "LoadByRegionChart"

\* what the claim says besides the index formula
C29_Shape ==
    /\ Len(Sampled) <= MAX_CHART_POINTS
    /\ Len(ChartData) <= MAX_CHART_POINTS => Sampled = ChartData
    /\ Len(ChartData) > MAX_CHART_POINTS =>
          /\ Len(Sampled) = MAX_CHART_POINTS
          /\ Sampled[1] = ChartData[1]
          /\ \A k \in 1..Len(Sampled) :
                /\ PositionOf(Sampled[k]) \in 0..(Len(ChartData) - 1)
                /\ k > 1 =>
                      PositionOf(Sampled[k - 1]) < PositionOf(Sampled[k])

\* C29 as stated: a list of at most 100 points is stored unchanged; of a
\* longer list of n points exactly 100 are stored, the i-th (i = 0..99) being
\* the point at index floor(i * n / 100); the indices are within bounds and
\* strictly increasing, the first point is kept, and never more than 100
\* points are stored.
C29_ExactIndices ==
    SampleRan =>
        /\ C29_Shape
        /\ Len(ChartData) > MAX_CHART_POINTS =>
              \A i \in 0..(MAX_CHART_POINTS - 1) :
                  PositionOf(Sampled[i + 1])
                      = (i * Len(ChartData)) \div MAX_CHART_POINTS

\* C29 (amended): as above, but the i-th stored point is the one at index
\* Math.floor(i * (n / 100)) of double arithmetic, which is floor(i * n / 100)
\* or, only when 100 divides i * n, one less.
C29_DoubleIndices ==
    SampleRan =>
        /\ C29_Shape
        /\ Len(ChartData) > MAX_CHART_POINTS =>
              \A i \in 0..(MAX_CHART_POINTS - 1) :
                  LET exact == (i * Len(ChartData)) \div MAX_CHART_POINTS
                      index == PositionOf(Sampled[i + 1])
                  IN  /\ index \in {exact, exact - 1}
                      /\ index # exact =>
                            (i * Len(ChartData)) % MAX_CHART_POINTS = 0

\* a list of 114 points was sampled: the 51st stored point is the one at
\* index 56, while floor(50 * 114 / 100) = 57
C29_Witness ==
    /\ SampleRan
    /\ Len(ChartData) = 114
    /\ Len(Sampled) = MAX_CHART_POINTS
    /\ PositionOf(Sampled[51]) = 56


(***************************************************************************)
(* OutlierDetectionCard alone: its requests overlap and resolve in any     *)
(* order, with responses that differ in their first record's std_dev.  No  *)
(* two of the responses give the same scatter points.                      *)
(***************************************************************************)
OutlierRecord(h, load, sd) ==
    [hour_end |-> Hour(2010, 6, 1, h), region |-> "north", load_mw |-> load,
     mean |-> 10, std_dev |-> sd]

\* result.data of the successful responses of /load/outliers
OutlierResponses ==
    {<<>>,
     <<OutlierRecord(1, 50, 5)>>,
     <<OutlierRecord(2, 60, 7)>>,
     <<OutlierRecord(1, 50, 5), OutlierRecord(2, 60, 7)>>,
     <<OutlierRecord(2, 60, 7), OutlierRecord(1, 50, 5)>>}

InitOutlier ==
    /\ dateRange = initialRange
    /\ tempDateRange = initialRange
    /\ nextOid = 0
    /\ selectedModel = "Statistical Model"
    /\ selected = [v \in Views |-> RegionDefault(v)]
    /\ mounted = {"OutlierDetectionCard"}
    /\ data = [v \in Views |-> DataInit(v)]
    /\ loading = [v \in Views |-> TRUE]
    /\ error = [v \in Views |-> NoError]
    /\ thresholds = ThresholdsInit
    /\ dateLabels = DateLabelsInit
    /\ issued = [v \in Views |-> IF v \in mounted THEN 1 ELSE 0]
    /\ inflight = {Request(v, 1, initialRange, "Statistical Model") : v \in mounted}
    /\ log = [v \in Views |-> <<>>]
    /\ aggView = "none"
    /\ aggInput = <<>>
    /\ aggOutput = Rows(<<>>)
    /\ aggPc = "off"

\* a request of the card resolves with a successful response
ResolveOutliers ==
    \E req \in inflight : \E apiData \in OutlierResponses :
        ResolveSuccess(req, apiData)

NextOutlier ==
    \/ \E d \in StartInputs : SetTempStartDate(d)
    \/ \E d \in EndInputs : SetTempEndDate(d)
    \/ applyDateRange
    \/ \E r \in RegionInputs("OutlierDetectionCard") :
            SelectRegion("OutlierDetectionCard", r)
    \/ \E req \in inflight : ResolveReject(req)
    \/ \E req \in inflight : \E response \in ErrorResponses :
            ResolveHttpError(req, response)
    \/ \E req \in inflight : ResolveBadJson(req)
    \/ ResolveOutliers

SpecOutlier == InitOutlier /\ [][NextOutlier]_vars

\* the thresholds three standard deviations of record first away from zero
ThreeSigma(first) ==
    [upper |-> 3 * first.std_dev, lower |-> (-3) * first.std_dev]

\* the stored points are those of a non-empty response, and the stored
\* thresholds are the ones of that response's first record
C30_ThresholdsOfStored ==
    data["OutlierDetectionCard"] # <<>>
    => \E apiData \in OutlierResponses :
          /\ apiData # <<>>
          /\ data["OutlierDetectionCard"] = OutlierAggregate(apiData).rows
          /\ thresholds = ThreeSigma(apiData[1])

\* a successful empty response clears the data and keeps the thresholds
C30_EmptyKeepsThresholds ==
    (/\ Completes("OutlierDetectionCard")
     /\ LastResolvedNext("OutlierDetectionCard").stored
     /\ LastResolvedNext("OutlierDetectionCard").rows = <<>>)
    => /\ data'["OutlierDetectionCard"] = <<>>
       /\ thresholds' = thresholds

\* C30: whenever the stored data of OutlierDetectionCard is non-empty, the
\* stored thresholds are upper = 3 * s and lower = -3 * s for the std_dev s
\* of the first record of the response that produced the stored data,
\* however the overlapping requests interleave; a successful empty response
\* clears the data and leaves the thresholds as they were.
C30_ThresholdsFollowData ==
    []C30_ThresholdsOfStored /\ [][C30_EmptyKeepsThresholds]_vars

\* C30 witness: two requests overlapped; the newer one resolved first with an
\* empty response, then the older one with two records whose std_dev differ:
\* its points are stored with the thresholds of its first record.
C30_Witness ==
    /\ Len(log["OutlierDetectionCard"]) = 2
    /\ log["OutlierDetectionCard"][1].stored
    /\ log["OutlierDetectionCard"][1].rows = <<>>
    /\ log["OutlierDetectionCard"][1].pending
          = {log["OutlierDetectionCard"][2].seq}
    /\ log["OutlierDetectionCard"][2].seq < log["OutlierDetectionCard"][1].seq
    /\ log["OutlierDetectionCard"][2].stored
    /\ data["OutlierDetectionCard"]
          = OutlierAggregate(<<OutlierRecord(1, 50, 5),
                               OutlierRecord(2, 60, 7)>>).rows
    /\ thresholds = [upper |-> 15, lower |-> -15]

====
